---------------------------- MODULE Spec2Model ----------------------------
(***************************************************************************)
(* A model of lexilight's two algorithms:                                  *)
(*   - the text highlighting engine (createHighlightedSegments and         *)
(*     mergeOverlappingHighlights), and                                    *)
(*   - the layout-aware PDF text reconstruction (extractTextFromPDF).      *)
(*                                                                         *)
(* JavaScript strings are sequences of one-character strings; offsets into *)
(* them are 0-based as in the source, so text[k+1] is JavaScript's         *)
(* text[k].  null is the string "null".                                    *)
(***************************************************************************)
EXTENDS Integers, Sequences, FiniteSets, TLC

VARIABLES
    \* ---- createHighlightedSegments / mergeOverlappingHighlights ----
    originalText,      \* argument: the document
    highlightRules,    \* argument: the rules
    pc,                \* position in createHighlightedSegments
    ruleIdx,           \* forEach index over highlightRules (1-based)
    lastIndex,         \* regex.lastIndex of the current rule's RegExp
    highlights,        \* const highlights = []
    merged,            \* mergeOverlappingHighlights: const merged = []
    current,           \* mergeOverlappingHighlights: let current
    currentRef,        \* which object current is: 0 for one created by the merge,
                       \* i for the object highlights[i] of the list it was given
    mergedRefs,        \* which object each element of merged is, likewise
    mi,                \* mergeOverlappingHighlights: loop variable i (0-based)
    mergedHighlights,  \* const mergedHighlights
    segIdx,            \* forEach index over mergedHighlights (1-based)
    segments,          \* const segments = []
    currentIndex,      \* let currentIndex
    result,            \* the returned array
    \* ---- extractTextFromPDF ----
    pdf,               \* what the decoder delivers: pages of text items
    ppc,               \* position in extractTextFromPDF
    pageNum,           \* for (let pageNum = 1; ...)
    itemIdx,           \* forEach index over textContent.items / over a line's items
    lineMap,           \* const lineMap = new Map(), in insertion order
    sortedLines,       \* const sortedLines
    lineIdx,           \* forEach index over sortedLines
    lineText,          \* let lineText
    lastXEnd,          \* let lastXEnd: <<>> for null, <<v>> for the number v
    pageText,          \* let pageText
    fullText,          \* let fullText
    pageTexts,         \* history: the pageText of every page joined so far
    extracted,         \* the resolved value of the promise
    \* ---- validateHighlightRules ----
    rules,             \* argument: [isArray, items]
    validation,        \* the returned { isValid, errors }
    vpc,               \* position of the call of validateHighlightRules
    \* ---- App (handleFileSelect) and HighlightedTextDisplay ----
    variant,           \* which App and analyzePolicyText: "gemini" or "backend"
    apc,               \* position in handleFileSelect
    isLoading,         \* useState(false)
    isAnalyzing,       \* useState(false)
    extractedText,     \* useState('')
    stateHighlightRules, \* App's state highlightRules: useState([])
    premiumEstimate,   \* useState(null), backend App only
    error,             \* useState(null): <<>> for null, else the parts of the message
    modifiedText,      \* HighlightedTextDisplay: useState(text); <<>> while not mounted
    \* ---- analyzePolicyText ----
    genAI,             \* const genAI: NULL without an API key, else the client
    anpc,              \* position in analyzePolicyText
    modelIdx,          \* index into modelNamesToTry of the for loop (1-based)
    lastError,         \* let lastError: <<>> for undefined, else <<model index>>
    reply,             \* history: what the classifier answered
    analysis,          \* the settled promise: [ok, sentences, premiumEstimate, message]
    \* ---- HighlightConfig ----
    configRules,       \* the prop highlightRules, as the parent holds it
    newRule,           \* const [newRule, setNewRule] = useState({...})
    configError,       \* const [error, setError] = useState('')
    called,            \* history: the last handler called onRulesChange
    \* ---- overlapping runs of handleFileSelect ----
    runs,              \* per run: where it is suspended, its file and its text
    rulesFrom,         \* history: the text whose analysis set highlightRules
    \* ---- HighlightedTextDisplay ----
    activeDropdownIndex  \* useState(null): the segment whose dropdown is open, -1 for null

hlVars == <<originalText, highlightRules, pc, ruleIdx, lastIndex, highlights,
            merged, current, currentRef, mergedRefs, mi, mergedHighlights,
            segIdx, segments, currentIndex, result>>

pdfVars == <<pdf, ppc, pageNum, itemIdx, lineMap, sortedLines, lineIdx,
             lineText, lastXEnd, pageText, fullText, pageTexts, extracted>>

cfgVars == <<configRules, newRule, configError, called>>

valVars == <<rules, validation, vpc>>

runVars == <<runs, rulesFrom>>

dispVars == <<activeDropdownIndex>>

appVars == <<variant, apc, isLoading, isAnalyzing, extractedText,
             stateHighlightRules, premiumEstimate, error, modifiedText,
             genAI, anpc, modelIdx, lastError, reply, analysis>>

vars == <<hlVars, pdfVars, valVars, appVars, cfgVars, runVars, dispVars>>

NULL == "null"

(***************************************************************************)
(* Bounds of the model.                                                    *)
(***************************************************************************)
MaxDocLen == 3      \* longest document
MaxRules == 2       \* longest rule list
MaxRuleLen == 2     \* longest rule text in a rule list
MaxPatLen == 3      \* longest rule text when a single rule is matched
MaxSpans == 3       \* longest span list handed to the merger directly

Min(a, b) == IF a < b THEN a ELSE b
Max(a, b) == IF a > b THEN a ELSE b

\* All strings over chars of length at most n.
Strings(chars, n) == UNION {[1..k -> chars] : k \in 0..n}

(***************************************************************************)
(* JavaScript string and RegExp primitives used by the engine.             *)
(***************************************************************************)

\* The characters of the model: a letter in both cases, two kinds of
\* whitespace (one of them a line terminator) and a regex-special character.
Whitespace == {" ", "\n"}
LineTerminators == {"\n"}

\* String.prototype.substring(a, b): clamps to [0, length], swaps if a > b.
Substring(s, a, b) ==
    LET ca == Max(0, Min(a, Len(s)))
        cb == Max(0, Min(b, Len(s)))
    IN  SubSeq(s, Min(ca, cb) + 1, Max(ca, cb))

\* The character class of /[.*+?^${}()|[\]\\]/.
SpecialChars == {".", "*", "+", "?", "^", "$", "{", "}", "(", ")", "|", "[", "]", "\\"}

\* rule.text.replace(/[.*+?^${}()|[\]\\]/g, '\\$&')
RECURSIVE EscapeSpecial(_)
EscapeSpecial(s) ==
    IF s = <<>> THEN <<>>
    ELSE (IF Head(s) \in SpecialChars THEN <<"\\", Head(s)>> ELSE <<Head(s)>>)
         \o EscapeSpecial(Tail(s))

\* The number of whitespace characters of s starting at 0-based offset pos.
RECURSIVE WsRunLen(_, _)
WsRunLen(s, pos) ==
    IF pos < Len(s) /\ s[pos + 1] \in Whitespace THEN 1 + WsRunLen(s, pos + 1) ELSE 0

\* Mutant of WhitespaceToClass: /\s/g instead of /\s+/g, so that every
\* whitespace character of the rule asks for a run of its own.
RECURSIVE WhitespaceCharToClass(_)
WhitespaceCharToClass(s) ==
    IF s = <<>> THEN <<>>
    ELSE IF Head(s) \in Whitespace
         THEN <<"\\", "s", "+">> \o WhitespaceCharToClass(Tail(s))
         ELSE <<Head(s)>> \o WhitespaceCharToClass(Tail(s))

\* escapedText.replace(/\s+/g, '\\s+')
RECURSIVE WhitespaceToClass(_)
WhitespaceToClass(s) ==
    IF s = <<>> THEN <<>>
    ELSE IF Head(s) \in Whitespace
         THEN <<"\\", "s", "+">> \o WhitespaceToClass(SubSeq(s, WsRunLen(s, 0) + 1, Len(s)))
         ELSE <<Head(s)>> \o WhitespaceToClass(Tail(s))

\* The pattern source handed to new RegExp(pattern, flags).
PatternSource(text) == WhitespaceToClass(EscapeSpecial(text))

\* new RegExp(pattern): the pattern source parsed into atoms.  A backslash
\* followed by s is the whitespace class (with + when a + follows), a
\* backslash followed by anything else is that character taken literally, an
\* unescaped dot is the any-character atom, any other character is itself.
Atom(type, ch) == [type |-> type, ch |-> ch]

RECURSIVE ParsePattern(_)
ParsePattern(p) ==
    IF p = <<>> THEN <<>>
    ELSE IF Head(p) = "\\" /\ Len(p) >= 2
         THEN IF p[2] = "s"
              THEN IF Len(p) >= 3 /\ p[3] = "+"
                   THEN <<Atom("ws+", "")>> \o ParsePattern(SubSeq(p, 4, Len(p)))
                   ELSE <<Atom("ws", "")>> \o ParsePattern(SubSeq(p, 3, Len(p)))
              ELSE <<Atom("lit", p[2])>> \o ParsePattern(SubSeq(p, 3, Len(p)))
         ELSE IF Head(p) = "."
              THEN <<Atom("any", "")>> \o ParsePattern(Tail(p))
              ELSE <<Atom("lit", Head(p))>> \o ParsePattern(Tail(p))

\* Canonicalize of the i flag (no u flag): toUpperCase of one code unit.
Canonicalize(c) == CASE c = "a" -> "A" [] c = "b" -> "B" [] OTHER -> c

\* Mutant of CharMatches: the i flag is always set.
CharMatchesAnyCase(c, patCh, ignoreCase) == Canonicalize(c) = Canonicalize(patCh)

CharMatches(c, patCh, ignoreCase) ==
    IF ignoreCase THEN Canonicalize(c) = Canonicalize(patCh) ELSE c = patCh

\* The backtracking matcher: the end offset of the match of atoms k.. of
\* toks at offset pos of text, or -1.  \s+ is greedy: the longest run first.
RECURSIVE MatchFrom(_, _, _, _, _)
RECURSIVE GreedyWs(_, _, _, _, _, _)
MatchFrom(toks, k, text, pos, ignoreCase) ==
    IF k > Len(toks) THEN pos
    ELSE LET t == toks[k] IN
         CASE t.type = "lit" ->
                IF pos < Len(text) /\ CharMatches(text[pos + 1], t.ch, ignoreCase)
                THEN MatchFrom(toks, k + 1, text, pos + 1, ignoreCase) ELSE -1
           [] t.type = "any" ->
                IF pos < Len(text) /\ text[pos + 1] \notin LineTerminators
                THEN MatchFrom(toks, k + 1, text, pos + 1, ignoreCase) ELSE -1
           [] t.type = "ws" ->
                IF pos < Len(text) /\ text[pos + 1] \in Whitespace
                THEN MatchFrom(toks, k + 1, text, pos + 1, ignoreCase) ELSE -1
           [] t.type = "ws+" ->
                GreedyWs(toks, k, text, pos, ignoreCase, WsRunLen(text, pos))
GreedyWs(toks, k, text, pos, ignoreCase, n) ==
    IF n < 1 THEN -1
    ELSE LET e == MatchFrom(toks, k + 1, text, pos + n, ignoreCase) IN
         IF e # -1 THEN e ELSE GreedyWs(toks, k, text, pos, ignoreCase, n - 1)

NoMatch == [index |-> -1, end |-> -1]

\* The leftmost match starting at offset start or later.
RECURSIVE ScanFrom(_, _, _, _)
ScanFrom(toks, text, start, ignoreCase) ==
    IF start > Len(text) THEN NoMatch
    ELSE LET e == MatchFrom(toks, 1, text, start, ignoreCase) IN
         IF e # -1 THEN [index |-> start, end |-> e]
         ELSE ScanFrom(toks, text, start + 1, ignoreCase)

\* regex.exec(originalText) of the global RegExp built from rule, with
\* regex.lastIndex = from: the match (index, end) or NoMatch for null.
RegexExec(rule, text, from) ==
    ScanFrom(ParsePattern(PatternSource(rule.text)), text, from, ~rule.caseSensitive)


(***************************************************************************)
(* The text highlighting engine.                                           *)
(***************************************************************************)

\* HIGHLIGHT_COLORS, in declaration order.
HIGHLIGHT_COLORS == <<"red", "green", "yellow">>

Span(start, end, color) == [start |-> start, end |-> end, color |-> color]
Segment(text, highlighted, color) ==
    [text |-> text, highlighted |-> highlighted, color |-> color]

NoSpan == Span(-1, -1, NULL)

\* The highlight pushed for a match of rule.
MatchHighlight(m, rule) == Span(m.index, m.end, rule.color)

\* Mutant of LastIndexAfter: the scan resumes one past the start of the match.
LastIndexAfterStart(m) == m.index + 1

\* Mutant of LastIndexAfter: no guard for zero-length matches.
LastIndexUnguarded(m) == m.end

\* regex.lastIndex after a successful exec and the zero-length guard.
LastIndexAfter(m) == IF m.end - m.index = 0 THEN m.end + 1 ELSE m.end

\* Mutant of InsertByStart: spans with the same start are ordered by end.
RECURSIVE InsertByStartThenEnd(_, _)
InsertByStartThenEnd(sorted, x) ==
    IF sorted = <<>> THEN <<x>>
    ELSE IF \/ x.start < Head(sorted).start
            \/ (x.start = Head(sorted).start /\ x.end < Head(sorted).end)
         THEN <<x>> \o sorted
         ELSE <<Head(sorted)>> \o InsertByStartThenEnd(Tail(sorted), x)

\* highlights.sort((a, b) => a.start - b.start): Array.prototype.sort is
\* stable, so x goes behind every element whose start is not larger.
RECURSIVE InsertByStart(_, _)
InsertByStart(sorted, x) ==
    IF sorted = <<>> THEN <<x>>
    ELSE IF x.start - Head(sorted).start < 0
         THEN <<x>> \o sorted
         ELSE <<Head(sorted)>> \o InsertByStart(Tail(sorted), x)

RECURSIVE SortFrom(_, _)
SortFrom(sorted, rest) ==
    IF rest = <<>> THEN sorted
    ELSE SortFrom(InsertByStart(sorted, Head(rest)), Tail(rest))

SortByStart(hs) == SortFrom(<<>>, hs)

\* Mutant of MergeNext: on overlap the whole current span is kept, not only
\* its part before next.
MergeNextKeepCurrent(cur, next) ==
    IF next.start < cur.end
    THEN [push    |-> IF next.start > cur.start THEN <<cur>> ELSE <<>>,
          current |-> Span(next.start, Max(cur.end, next.end), next.color)]
    ELSE [push |-> <<cur>>, current |-> next]

\* Mutant of MergeNext: the merged span ends where next ends.
MergeNextEnd(cur, next) ==
    IF next.start < cur.end
    THEN [push    |-> IF next.start > cur.start
                      THEN <<Span(cur.start, next.start, cur.color)>>
                      ELSE <<>>,
          current |-> Span(next.start, next.end, next.color)]
    ELSE [push |-> <<cur>>, current |-> next]

\* Mutant of MergeNext: on overlap nothing of current is kept.
MergeNextDropPrefix(cur, next) ==
    IF next.start < cur.end
    THEN [push    |-> <<>>,
          current |-> Span(next.start, Max(cur.end, next.end), next.color)]
    ELSE [push |-> <<cur>>, current |-> next]

\* One iteration of the loop of mergeOverlappingHighlights: what is pushed to
\* merged and the new value of current.
MergeNext(cur, next) ==
    IF next.start < cur.end
    THEN [push    |-> IF next.start > cur.start
                      THEN <<Span(cur.start, next.start, cur.color)>>
                      ELSE <<>>,
          current |-> Span(next.start, Max(cur.end, next.end), next.color)]
    ELSE [push |-> <<cur>>, current |-> next]

\* Mutant of SegmentsFor: the text before the highlight is not added.
SegmentsForNoGap(text, highlight, idx) ==
    <<Segment(Substring(text, highlight.start, highlight.end), TRUE, highlight.color)>>

\* One iteration of mergedHighlights.forEach: the segments pushed.
SegmentsFor(text, highlight, idx) ==
    (IF highlight.start > idx
     THEN <<Segment(Substring(text, idx, highlight.start), FALSE, NULL)>>
     ELSE <<>>)
    \o <<Segment(Substring(text, highlight.start, highlight.end), TRUE, highlight.color)>>

\* The remaining text after the last highlight.
RemainingSegments(text, idx) ==
    IF idx < Len(text)
    THEN <<Segment(Substring(text, idx, Len(text)), FALSE, NULL)>>
    ELSE <<>>

\* Mutant of ReturnValue: return segments.
ReturnValueNoFallback(segs, text) == segs

\* return segments.length > 0 ? segments : [{ text: originalText, ... }]
ReturnValue(segs, text) ==
    IF Len(segs) > 0 THEN segs ELSE <<Segment(text, FALSE, NULL)>>

mergeLocals == <<merged, current, currentRef, mergedRefs, mi, mergedHighlights>>

\* Mutant of SpreadCopy: the span itself is taken, not a copy of it.
SameObject(i) == i

\* { ...highlights[i] }: a new object with the properties of highlights[i].
SpreadCopy(i) == 0

\* { start: ..., end: ..., color: ... }: a new object.
ObjectLiteral == 0
segLocals == <<segIdx, segments, currentIndex>>

\* if (!highlightRules || highlightRules.length === 0) return [...]
EarlyReturn ==
    /\ pc = "start"
    /\ Len(highlightRules) = 0
    /\ result' = <<Segment(originalText, FALSE, NULL)>>
    /\ pc' = "done"
    /\ UNCHANGED <<pdfVars, valVars, cfgVars, dispVars, runVars, appVars>>
    /\ UNCHANGED <<originalText, highlightRules, ruleIdx, lastIndex, highlights,
                   mergeLocals, segLocals>>

\* const highlights = []; highlightRules.forEach(...) reaches its first rule.
BeginMatching ==
    /\ pc = "start"
    /\ Len(highlightRules) > 0
    /\ highlights' = <<>>
    /\ ruleIdx' = 1
    /\ lastIndex' = 0
    /\ pc' = "exec"
    /\ UNCHANGED <<pdfVars, valVars, cfgVars, dispVars, runVars, appVars>>
    /\ UNCHANGED <<originalText, highlightRules, mergeLocals, segLocals, result>>

\* while ((match = regex.exec(originalText)) !== null) { push; guard }
ExecMatch ==
    /\ pc = "exec"
    /\ LET rule == highlightRules[ruleIdx]
           m == RegexExec(rule, originalText, lastIndex)
       IN  /\ m # NoMatch
           /\ highlights' = Append(highlights, MatchHighlight(m, rule))
           /\ lastIndex' = LastIndexAfter(m)
    /\ UNCHANGED <<pdfVars, valVars, cfgVars, dispVars, runVars, appVars>>
    /\ UNCHANGED <<originalText, highlightRules, pc, ruleIdx, mergeLocals,
                   segLocals, result>>

\* regex.exec returns null: the while loop ends and forEach moves on.
ExecNull ==
    /\ pc = "exec"
    /\ RegexExec(highlightRules[ruleIdx], originalText, lastIndex) = NoMatch
    /\ IF ruleIdx < Len(highlightRules)
       THEN /\ ruleIdx' = ruleIdx + 1
            /\ pc' = "exec"
       ELSE /\ ruleIdx' = ruleIdx
            /\ pc' = "sort"
    /\ lastIndex' = 0
    /\ UNCHANGED <<pdfVars, valVars, cfgVars, dispVars, runVars, appVars>>
    /\ UNCHANGED <<originalText, highlightRules, highlights, mergeLocals,
                   segLocals, result>>

\* highlights.sort((a, b) => a.start - b.start)
SortHighlights ==
    /\ pc = "sort"
    /\ highlights' = SortByStart(highlights)
    /\ pc' = "merge"
    /\ UNCHANGED <<pdfVars, valVars, cfgVars, dispVars, runVars, appVars>>
    /\ UNCHANGED <<originalText, highlightRules, ruleIdx, lastIndex, mergeLocals,
                   segLocals, result>>

\* mergeOverlappingHighlights is entered.
MergeEnter ==
    /\ pc = "merge"
    /\ IF Len(highlights) = 0
       THEN /\ mergedHighlights' = <<>>
            /\ pc' = "segment"
            /\ UNCHANGED <<merged, current, currentRef, mergedRefs, mi>>
       ELSE /\ merged' = <<>>
            /\ mergedRefs' = <<>>
            /\ current' = highlights[1]
            /\ currentRef' = SpreadCopy(1)
            /\ mi' = 1
            /\ pc' = "mergeLoop"
            /\ UNCHANGED mergedHighlights
    /\ UNCHANGED <<pdfVars, valVars, cfgVars, dispVars, runVars, appVars>>
    /\ UNCHANGED <<originalText, highlightRules, ruleIdx, lastIndex, highlights,
                   segLocals, result>>

\* for (let i = 1; i < highlights.length; i++) { ... }
MergeStep ==
    /\ pc = "mergeLoop"
    /\ mi < Len(highlights)
    /\ LET r == MergeNext(current, highlights[mi + 1])
       IN  /\ merged' = merged \o r.push
           /\ current' = r.current
    /\ IF highlights[mi + 1].start < current.end
       THEN /\ mergedRefs' = mergedRefs \o
                    (IF highlights[mi + 1].start > current.start
                     THEN <<ObjectLiteral>> ELSE <<>>)
            /\ currentRef' = ObjectLiteral
       ELSE /\ mergedRefs' = Append(mergedRefs, currentRef)
            /\ currentRef' = SpreadCopy(mi + 1)
    /\ mi' = mi + 1
    /\ UNCHANGED <<pdfVars, valVars, cfgVars, dispVars, runVars, appVars>>
    /\ UNCHANGED <<originalText, highlightRules, pc, ruleIdx, lastIndex,
                   highlights, mergedHighlights, segLocals, result>>

\* merged.push(current); return merged;
MergeReturn ==
    /\ pc = "mergeLoop"
    /\ ~(mi < Len(highlights))
    /\ merged' = Append(merged, current)
    /\ mergedRefs' = Append(mergedRefs, currentRef)
    /\ mergedHighlights' = merged'
    /\ pc' = "segment"
    /\ UNCHANGED <<pdfVars, valVars, cfgVars, dispVars, runVars, appVars>>
    /\ UNCHANGED <<originalText, highlightRules, ruleIdx, lastIndex, highlights,
                   current, currentRef, mi, segLocals, result>>

\* mergedHighlights.forEach((highlight) => { ... })
SegmentStep ==
    /\ pc = "segment"
    /\ segIdx <= Len(mergedHighlights)
    /\ LET highlight == mergedHighlights[segIdx]
       IN  /\ segments' = segments \o SegmentsFor(originalText, highlight, currentIndex)
           /\ currentIndex' = highlight.end
    /\ segIdx' = segIdx + 1
    /\ UNCHANGED <<pdfVars, valVars, cfgVars, dispVars, runVars, appVars>>
    /\ UNCHANGED <<originalText, highlightRules, pc, ruleIdx, lastIndex,
                   highlights, mergeLocals, result>>

\* The remaining text is added and the segments are returned.
SegmentReturn ==
    /\ pc = "segment"
    /\ segIdx > Len(mergedHighlights)
    /\ segments' = segments \o RemainingSegments(originalText, currentIndex)
    /\ result' = ReturnValue(segments', originalText)
    /\ pc' = "done"
    /\ UNCHANGED <<pdfVars, valVars, cfgVars, dispVars, runVars, appVars>>
    /\ UNCHANGED <<originalText, highlightRules, ruleIdx, lastIndex, highlights,
                   mergeLocals, segIdx, currentIndex>>

\* The locals of createHighlightedSegments before anything has run.
HlLocalsInit ==
    /\ ruleIdx = 1
    /\ lastIndex = 0
    /\ merged = <<>>
    /\ current = NoSpan
    /\ currentRef = 0
    /\ mergedRefs = <<>>
    /\ mi = 0
    /\ mergedHighlights = <<>>
    /\ segIdx = 1
    /\ segments = <<>>
    /\ currentIndex = 0
    /\ result = <<>>

\* extractTextFromPDF is not running.
PdfIdle ==
    /\ pdf = <<>>
    /\ ppc = "idle"
    /\ pageNum = 0
    /\ itemIdx = 0
    /\ lineMap = <<>>
    /\ sortedLines = <<>>
    /\ lineIdx = 0
    /\ lineText = <<>>
    /\ lastXEnd = <<>>
    /\ pageText = <<>>
    /\ fullText = <<>>
    /\ pageTexts = <<>>
    /\ extracted = NULL

(***************************************************************************)
(* JavaScript values of the fields of rules and of classification entries. *)
(* A string is held either as its characters (chars) or, for a color, as a *)
(* whole (name); undefined, numbers and booleans as themselves.            *)
(***************************************************************************)
JsValue(type, chars, name, num, flag) ==
    [type |-> type, chars |-> chars, name |-> name, num |-> num, flag |-> flag]

Undefined == JsValue("undefined", <<>>, "", 0, FALSE)
Str(chars) == JsValue("string", chars, "", 0, FALSE)
Name(name) == JsValue("string", <<>>, name, 0, FALSE)
Num(n) == JsValue("number", <<>>, "", n, FALSE)
Bool(b) == JsValue("boolean", <<>>, "", 0, b)

\* ToBoolean(v): undefined, 0, '' and false are falsy.
Truthy(v) ==
    CASE v.type = "string" -> v.chars # <<>> \/ v.name # ""
      [] v.type = "number" -> v.num # 0
      [] v.type = "boolean" -> v.flag
      [] OTHER -> FALSE

\* typeof v
TypeOf(v) == v.type

\* The form of HighlightConfig as mounted: the initial values of its useState
\* calls; the rule list it is given is empty and no handler has run.
NoError == [rule |-> 0, message |-> ""]

EmptyRule ==
    [text |-> Str(<<>>), color |-> Name(HIGHLIGHT_COLORS[1]), caseSensitive |-> Bool(FALSE)]

ConfigMounted ==
    /\ newRule = EmptyRule
    /\ configError = NoError
    /\ called = FALSE

ConfigIdle ==
    /\ configRules = <<>>
    /\ ConfigMounted

\* validateHighlightRules is not called.
ValIdle ==
    /\ rules = [isArray |-> TRUE, items |-> <<>>]
    /\ validation = [isValid |-> TRUE, errors |-> <<>>]
    /\ vpc = "idle"
    /\ ConfigIdle

\* analyzePolicyText is not running.
AnalysisIdle ==
    /\ anpc = "idle"
    /\ modelIdx = 1
    /\ lastError = <<>>
    /\ reply = [kind |-> "none", isArray |-> FALSE, sentences |-> <<>>,
                premiumEstimate |-> NULL]
    /\ analysis = NULL

\* The App as mounted: the initial values of its useState calls.
AppMounted ==
    /\ isLoading = FALSE
    /\ isAnalyzing = FALSE
    /\ extractedText = <<>>
    /\ stateHighlightRules = <<>>
    /\ premiumEstimate = NULL
    /\ error = <<>>
    /\ modifiedText = <<>>
    /\ runs = <<>>
    /\ rulesFrom = <<>>
    /\ activeDropdownIndex = -1

\* No App is part of the run.
AppIdle ==
    /\ variant = "none"
    /\ genAI = NULL
    /\ apc = "idle"
    /\ AppMounted
    /\ AnalysisIdle

\* The rule lists of length n over the rule texts: rule i is given the i-th
\* highlight color, so that a color names its rule.
RuleLists(texts, n) ==
    {[i \in 1..n |-> [text |-> T[i], color |-> HIGHLIGHT_COLORS[i],
                      caseSensitive |-> C[i]]] :
        T \in [1..n -> texts], C \in [1..n -> BOOLEAN]}

DocChars == {"a", "A", " "}
MatchChars == {"a", "A", " ", "\n", "."}

\* createHighlightedSegments(originalText, highlightRules) on every document
\* and every rule list within the bounds.
Init ==
    /\ originalText \in Strings(DocChars, MaxDocLen)
    /\ highlightRules \in UNION {RuleLists(Strings(DocChars, MaxRuleLen), n) : n \in 0..MaxRules}
    /\ pc = "start"
    /\ highlights = <<>>
    /\ HlLocalsInit
    /\ PdfIdle
    /\ ValIdle
    /\ AppIdle

Next ==
    \/ EarlyReturn
    \/ BeginMatching
    \/ ExecMatch
    \/ ExecNull
    \/ SortHighlights
    \/ MergeEnter
    \/ MergeStep
    \/ MergeReturn
    \/ SegmentStep
    \/ SegmentReturn

Spec == Init /\ [][Next]_vars

\* The matching loop on its own, on every document and every list of one
\* or more rules whose text is empty or one letter.  The function
\* is synchronous: a step that can be taken is taken.
ScanChars == {"a"}

InitScan ==
    /\ originalText \in Strings(ScanChars, MaxDocLen)
    /\ highlightRules \in UNION {RuleLists(Strings(ScanChars, 1), n) : n \in 1..MaxRules}
    /\ pc = "start"
    /\ highlights = <<>>
    /\ HlLocalsInit
    /\ PdfIdle
    /\ ValIdle
    /\ AppIdle

NextScan ==
    \/ BeginMatching
    \/ ExecMatch
    \/ ExecNull
    \/ SortHighlights

SpecScan == InitScan /\ [][NextScan]_vars /\ WF_vars(NextScan)

\* One rule, over the richer alphabet.
InitMatch ==
    /\ originalText \in Strings(MatchChars, MaxDocLen)
    /\ highlightRules \in RuleLists(Strings(MatchChars, MaxPatLen), 1)
    /\ pc = "start"
    /\ highlights = <<>>
    /\ HlLocalsInit
    /\ PdfIdle
    /\ ValIdle
    /\ AppIdle

NextMatch ==
    \/ BeginMatching
    \/ ExecMatch
    \/ ExecNull
    \/ SortHighlights
    \/ MergeEnter
    \/ MergeStep
    \/ MergeReturn
    \/ SegmentStep
    \/ SegmentReturn

SpecMatch == InitMatch /\ [][NextMatch]_vars

\* mergeOverlappingHighlights on every list of spans sorted by start.
IsSortedByStart(hs) == \A i \in 1..(Len(hs) - 1) : hs[i].start <= hs[i + 1].start

MatchSpans ==
    {Span(s, e, c) : s \in 0..MaxDocLen, e \in 0..MaxDocLen, c \in {"red", "green"}}

SortedSpanLists ==
    {hs \in UNION {[1..n -> {sp \in MatchSpans : sp.start <= sp.end}] : n \in 0..MaxSpans} :
        IsSortedByStart(hs)}

InitMerge ==
    /\ originalText = [i \in 1..MaxDocLen |-> "a"]
    /\ highlightRules = <<>>
    /\ pc = "merge"
    /\ highlights \in SortedSpanLists
    /\ HlLocalsInit
    /\ PdfIdle
    /\ ValIdle
    /\ AppIdle

NextMerge ==
    \/ MergeEnter
    \/ MergeStep
    \/ MergeReturn
    \/ SegmentStep
    \/ SegmentReturn

SpecMerge == InitMerge /\ [][NextMerge]_vars


(***************************************************************************)
(* Properties of the highlighting engine.                                  *)
(***************************************************************************)

\* The texts of segs, concatenated in order.
RECURSIVE ConcatTexts(_)
ConcatTexts(segs) ==
    IF segs = <<>> THEN <<>> ELSE Head(segs).text \o ConcatTexts(Tail(segs))

\* The segment of segs that holds the character at 0-based offset p.
RECURSIVE SegmentAt(_, _)
SegmentAt(segs, p) ==
    IF segs = <<>> THEN Segment(<<>>, FALSE, "none")
    ELSE IF p < Len(Head(segs).text) THEN Head(segs)
         ELSE SegmentAt(Tail(segs), p - Len(Head(segs).text))

Covers(h, p) == h.start <= p /\ p < h.end
Offsets == 0..(Len(originalText) - 1)
SeqRange(q) == {q[i] : i \in 1..Len(q)}

\* The matching loop is over: highlights holds every match of every rule.
MatchingDone == pc \in {"sort", "merge", "mergeLoop", "segment", "done"}
\* mergeOverlappingHighlights has returned.
MergeDone == pc \in {"segment", "done"}

\* C1. Lossless partition: the texts of the returned segments, concatenated
\* in order, are the original document.
LosslessPartition ==
    pc = "done" => ConcatTexts(result) = originalText

\* C1 witness: a document cut into at least three segments, highlighted and not.
LosslessWitness ==
    /\ pc = "done"
    /\ Len(result) >= 3
    /\ \E i, j \in 1..Len(result) : result[i].highlighted /\ ~result[j].highlighted
    /\ ConcatTexts(result) = originalText

\* C2. Non-overlap: the list returned by mergeOverlappingHighlights for a
\* list sorted by start is sorted by start, and spans[i].end <= spans[j].start
\* for all i < j.
NonOverlap ==
    MergeDone =>
        \A i, j \in 1..Len(mergedHighlights) :
            i < j => /\ mergedHighlights[i].end <= mergedHighlights[j].start
                     /\ mergedHighlights[i].start <= mergedHighlights[j].start

\* C2 witness: overlapping spans went in and several spans came out.
NonOverlapWitness ==
    /\ MergeDone
    /\ Len(mergedHighlights) >= 2
    /\ \E i, j \in 1..Len(highlights) :
          i < j /\ highlights[j].start < highlights[i].end
                /\ highlights[j].start > highlights[i].start

\* The index of the rule that has the color c (a color names its rule).
RuleOfColor(c) == CHOOSE i \in 1..Len(highlightRules) : highlightRules[i].color = c

\* The last rule, in the order of the rules list, with a match that covers p.
LastRuleCovering(p) ==
    LET rs == {RuleOfColor(h.color) : h \in {x \in SeqRange(highlights) : Covers(x, p)}}
    IN  CHOOSE r \in rs : \A q \in rs : q <= r

\* C3. Precedence: where matches of different rules overlap, every character
\* of the overlap is emitted with the color of the rule that comes later in
\* the rules list, whichever match starts first.
Precedence ==
    pc = "done" /\ Len(highlightRules) > 0 =>
        \A p \in Offsets :
            (\E h \in SeqRange(highlights) : Covers(h, p)) =>
                SegmentAt(result, p).color = highlightRules[LastRuleCovering(p)].color

\* C4. Degenerate case: the result is never empty, and with no rule or no
\* match at all it is the one segment {whole document, not highlighted, null}.
DegenerateCase ==
    pc = "done" =>
        /\ Len(result) >= 1
        /\ (Len(highlightRules) = 0 \/ highlights = <<>>) =>
               result = <<Segment(originalText, FALSE, NULL)>>

\* C4 witness: rules that match nothing in the empty document.
DegenerateWitness ==
    /\ pc = "done"
    /\ Len(highlightRules) > 0
    /\ highlights = <<>>
    /\ originalText = <<>>
    /\ result = <<Segment(<<>>, FALSE, NULL)>>

\* C5. Highlight coverage: an offset of the document lies in a highlighted
\* segment exactly when a raw match span covers it; the merged spans cover
\* the same offsets as the raw spans.
HighlightCoverage ==
    /\ MergeDone =>
          \A p \in Offsets :
              (\E m \in SeqRange(mergedHighlights) : Covers(m, p))
                  <=> (\E h \in SeqRange(highlights) : Covers(h, p))
    /\ pc = "done" =>
          \A p \in Offsets :
              SegmentAt(result, p).highlighted
                  <=> (\E h \in SeqRange(highlights) : Covers(h, p))

\* C5 witness: a span inside an earlier one, and an offset nothing covers.
HighlightCoverageWitness ==
    /\ pc = "done"
    /\ \E i, j \in 1..Len(highlights) :
          i < j /\ highlights[i].start < highlights[j].start
                /\ highlights[j].start < highlights[j].end
                /\ highlights[j].end <= highlights[i].end
    /\ \E p \in Offsets : ~SegmentAt(result, p).highlighted
    /\ \E p \in Offsets : SegmentAt(result, p).highlighted

\* A string with every run of whitespace replaced by one space.
RECURSIVE CollapseWhitespace(_)
CollapseWhitespace(s) ==
    IF s = <<>> THEN <<>>
    ELSE IF Head(s) \in {" ", "\n"}
         THEN IF Len(s) >= 2 /\ s[2] \in {" ", "\n"}
              THEN CollapseWhitespace(Tail(s))
              ELSE <<" ">> \o CollapseWhitespace(Tail(s))
         ELSE <<Head(s)>> \o CollapseWhitespace(Tail(s))

\* A string with its letters in upper case.
UpperCase(s) == [i \in 1..Len(s) |-> IF s[i] = "a" THEN "A" ELSE s[i]]

Slice(s, e) == SubSeq(originalText, s + 1, e)
Slices == {<<s, e>> \in (0..Len(originalText)) \X (0..Len(originalText)) : s <= e}

\* The text of the document equals the rule's text up to the lengths of the
\* whitespace runs (and, with fold, up to letter case).
SameUpToWhitespace(a, b, fold) ==
    IF fold
    THEN UpperCase(CollapseWhitespace(a)) = UpperCase(CollapseWhitespace(b))
    ELSE CollapseWhitespace(a) = CollapseWhitespace(b)

\* C6. Whitespace tolerance: every match is the rule's text with each run of
\* whitespace replaced by some run of whitespace and every other character
\* (the regex-special ones too) unchanged up to letter case; and text of that
\* shape in the rule's own case is found: it is matched whole when it is the
\* document, and some match is reported when it occurs in the document.
WhitespaceTolerance ==
    MatchingDone =>
        LET rule == highlightRules[1] IN
        /\ \A h \in SeqRange(highlights) :
              SameUpToWhitespace(Slice(h.start, h.end), rule.text, TRUE)
        /\ (\E sl \in Slices : SameUpToWhitespace(Slice(sl[1], sl[2]), rule.text, FALSE))
              => highlights # <<>>
        /\ SameUpToWhitespace(originalText, rule.text, FALSE)
              => highlights = <<Span(0, Len(originalText), rule.color)>>

\* C6 witness: a rule with a letter and a run of two whitespace characters
\* has matched a document whose run is a single newline.
WhitespaceWitness ==
    /\ MatchingDone
    /\ \E i \in 1..Len(highlightRules[1].text) : highlightRules[1].text[i] \notin {" ", "\n"}
    /\ \E h \in SeqRange(highlights) :
          /\ Slice(h.start, h.end) # highlightRules[1].text
          /\ \E i \in 1..(Len(highlightRules[1].text) - 1) :
                /\ highlightRules[1].text[i] \in {" ", "\n"}
                /\ highlightRules[1].text[i + 1] \in {" ", "\n"}
          /\ \E p \in h.start..(h.end - 1) :
                /\ originalText[p + 1] = "\n"
                /\ (p = 0 \/ originalText[p] \notin {" ", "\n"})
                /\ (p + 1 = Len(originalText) \/ originalText[p + 2] \notin {" ", "\n"})

\* C7. Case sensitivity: a case-sensitive rule matches only text in exactly
\* the rule's case; a case-insensitive rule finds its text in any letter case.
CaseSensitivity ==
    MatchingDone =>
        LET rule == highlightRules[1] IN
        /\ rule.caseSensitive =>
              \A h \in SeqRange(highlights) :
                  SameUpToWhitespace(Slice(h.start, h.end), rule.text, FALSE)
        /\ ~rule.caseSensitive =>
              ((\E sl \in Slices : SameUpToWhitespace(Slice(sl[1], sl[2]), rule.text, TRUE))
                  => highlights # <<>>)

\* C7 witness: the document holds a case-sensitive rule's text in another
\* case only, and nothing is matched.
CaseSensitivityWitness ==
    /\ MatchingDone
    /\ highlightRules[1].caseSensitive
    /\ highlightRules[1].text # <<>>
    /\ \E sl \in Slices : SameUpToWhitespace(Slice(sl[1], sl[2]), highlightRules[1].text, TRUE)
    /\ highlights = <<>>


\* The spans of hs that start at s, in their order in hs.
StartingAt(hs, s) == SelectSeq(hs, LAMBDA h : h.start = s)

\* The spans are in the order they were collected: by rule, and the spans of
\* one rule by occurrence.
CollectionOrder(hs) ==
    \A i, j \in 1..Len(hs) :
        i < j => \/ RuleOfColor(hs[i].color) < RuleOfColor(hs[j].color)
                 \/ /\ hs[i].color = hs[j].color
                    /\ hs[i].start < hs[j].start

\* C17. Match list ordering: the spans are collected in rule order and then
\* occurrence order, and the sort hands the merger the same spans by
\* non-decreasing start, the spans of equal start in their collection order.
MatchListOrdering ==
    /\ [](pc = "sort" => CollectionOrder(highlights))
    /\ [][(pc = "sort" /\ pc' = "merge") =>
            /\ Len(highlights') = Len(highlights)
            /\ IsSortedByStart(highlights')
            /\ \A s \in 0..Len(originalText) :
                  StartingAt(highlights', s) = StartingAt(highlights, s)]_vars

\* C17 witness: the sorted list holds two spans of equal start of which the
\* first ends later and belongs to the earlier rule.
MatchListOrderingWitness ==
    /\ pc = "merge"
    /\ \E i \in 1..(Len(highlights) - 1) :
          /\ highlights[i].start = highlights[i + 1].start
          /\ highlights[i].end > highlights[i + 1].end
          /\ RuleOfColor(highlights[i].color) < RuleOfColor(highlights[i + 1].color)

\* The slice [sl[1], sl[2]) of the document is an occurrence of the rule.
Occurs(sl, rule) ==
    SameUpToWhitespace(Slice(sl[1], sl[2]), rule.text, ~rule.caseSensitive)

\* C18. Per-rule scanning: the spans of a rule with non-empty text all carry
\* its color, are non-empty, each starts at or after the end of the one
\* before, each is the leftmost occurrence at or after that end (the longest
\* one at its start), and no occurrence is left after the last span.
PerRuleScanning ==
    (pc \in {"exec", "sort"} /\ highlightRules[1].text # <<>>) =>
        LET rule == highlightRules[1]
            from(i) == IF i = 1 THEN 0 ELSE highlights[i - 1].end
        IN  /\ \A i \in 1..Len(highlights) :
                  /\ highlights[i].color = rule.color
                  /\ highlights[i].start < highlights[i].end
                  /\ from(i) <= highlights[i].start
                  /\ i > 1 => highlights[i - 1].start < highlights[i].start
                  /\ Occurs(<<highlights[i].start, highlights[i].end>>, rule)
                  /\ \A sl \in Slices :
                        /\ (from(i) <= sl[1] /\ sl[1] < highlights[i].start)
                              => ~Occurs(sl, rule)
                        /\ (sl[1] = highlights[i].start /\ Occurs(sl, rule))
                              => sl[2] <= highlights[i].end
            /\ pc = "sort" =>
                  \A sl \in Slices :
                      from(Len(highlights) + 1) <= sl[1] => ~Occurs(sl, rule)

\* C18 witness: a rule has matched twice, the second match starting where the
\* first one ends.
PerRuleScanningWitness ==
    /\ pc = "sort"
    /\ highlightRules[1].text # <<>>
    /\ Len(highlights) >= 2
    /\ highlights[1].end = highlights[2].start

\* C19. Prefix survival: in one iteration of the merge sweep, a next span
\* that overlaps current and starts after it makes the sweep emit
\* [current.start, next.start) in current's color and continue with
\* [next.start, max(current.end, next.end)) in next's color; a next span at
\* or after current's end makes it emit current unchanged and continue with
\* next.
PrefixSurvival ==
    [][(pc = "mergeLoop" /\ mi' = mi + 1) =>
          LET next == highlights[mi + 1]
              end == IF current.end >= next.end THEN current.end ELSE next.end
          IN  /\ (next.start < current.end /\ next.start > current.start) =>
                    /\ merged' = Append(merged, [start |-> current.start,
                                                 end |-> next.start,
                                                 color |-> current.color])
                    /\ current' = [start |-> next.start, end |-> end,
                                   color |-> next.color]
              /\ next.start >= current.end =>
                    /\ merged' = Append(merged, current)
                    /\ current' = next]_vars

\* C19 witness: the sweep has just cut a prefix off a span that reaches
\* beyond the span that overlapped it.
PrefixSurvivalWitness ==
    /\ pc = "mergeLoop"
    /\ mi >= 2
    /\ merged # <<>>
    /\ LET prefix == merged[Len(merged)]
           next == highlights[mi]
       IN  /\ prefix.start < prefix.end
           /\ prefix.end = next.start
           /\ prefix.color # next.color
           /\ current.start = next.start
           /\ current.color = next.color
           /\ current.end > next.end

(***************************************************************************)
(* The layout-aware PDF text reconstruction, extractTextFromPDF.           *)
(***************************************************************************)

MaxItems == 3       \* most text items on the page of a one-page document
MaxPages == 3       \* most pages of a document
MaxPageItems == 2   \* most text items on a page of a document of several pages

\* A text item as the decoder delivers it.  hasTransform is FALSE when the
\* item has no transform (x and y are then meaningless); width 0 stands for
\* a width that is absent or zero (item.width || 0 is 0 for both).
TextItem(str, hasTransform, x, y, width) ==
    [str |-> str, hasTransform |-> hasTransform, x |-> x, y |-> y, width |-> width]

\* What lineMap holds for an item: { text: item.str, x, y, width: item.width || 0 }
LineItem(item) ==
    [text |-> item.str, x |-> item.x, y |-> item.y,
     width |-> IF item.width = 0 THEN 0 ELSE item.width]

\* Mutant of Skipped: only an item without text is skipped.
SkippedWithoutText(item) == item.str = <<>>

\* if (!item.str || !item.transform) return;
Skipped(item) == item.str = <<>> \/ ~item.hasTransform

\* Math.round(y / 2) * 2 for an integer y: Math.round rounds a half up.
LineKey(y) == ((y + 1) \div 2) * 2

HasKey(map, key) == \E i \in 1..Len(map) : map[i].key = key

\* lineMap after one call of the forEach callback on item: a skipped item
\* changes nothing; a new key gets a new entry, at the end of the map.
AddToLineMap(map, item) ==
    IF Skipped(item) THEN map
    ELSE LET key == LineKey(item.y)
             withKey == IF HasKey(map, key) THEN map
                        ELSE Append(map, [key |-> key, items |-> <<>>])
         IN  [i \in 1..Len(withKey) |->
                 IF withKey[i].key = key
                 THEN [withKey[i] EXCEPT !.items = Append(@, LineItem(item))]
                 ELSE withKey[i]]

\* Mutant of InsertByKeyDesc: (a, b) => a[0] - b[0].
RECURSIVE InsertByKeyAsc(_, _)
InsertByKeyAsc(sorted, e) ==
    IF sorted = <<>> THEN <<e>>
    ELSE IF e.key - Head(sorted).key < 0
         THEN <<e>> \o sorted
         ELSE <<Head(sorted)>> \o InsertByKeyAsc(Tail(sorted), e)

\* Array.from(lineMap.entries()).sort((a, b) => b[0] - a[0]), a stable sort:
\* e goes behind every entry whose key is not smaller.
RECURSIVE InsertByKeyDesc(_, _)
InsertByKeyDesc(sorted, e) ==
    IF sorted = <<>> THEN <<e>>
    ELSE IF Head(sorted).key - e.key < 0
         THEN <<e>> \o sorted
         ELSE <<Head(sorted)>> \o InsertByKeyDesc(Tail(sorted), e)

RECURSIVE SortLinesFrom(_, _)
SortLinesFrom(sorted, rest) ==
    IF rest = <<>> THEN sorted
    ELSE SortLinesFrom(InsertByKeyDesc(sorted, Head(rest)), Tail(rest))

SortLines(map) == SortLinesFrom(<<>>, map)

\* items.sort((a, b) => a.x - b.x), a stable sort.
RECURSIVE InsertByX(_, _)
InsertByX(sorted, it) ==
    IF sorted = <<>> THEN <<it>>
    ELSE IF it.x - Head(sorted).x < 0
         THEN <<it>> \o sorted
         ELSE <<Head(sorted)>> \o InsertByX(Tail(sorted), it)

RECURSIVE SortItemsFrom(_, _)
SortItemsFrom(sorted, rest) ==
    IF rest = <<>> THEN sorted
    ELSE SortItemsFrom(InsertByX(sorted, Head(rest)), Tail(rest))

SortItemsByX(items) == SortItemsFrom(<<>>, items)

\* ' '.repeat(n)
Spaces(n) == [i \in 1..n |-> " "]

\* Mutant of GapSpaces: Math.ceil instead of Math.floor.
GapSpacesCeil(gap) ==
    IF gap > 5 THEN Spaces(Max(1, (gap + 4) \div 5))
    ELSE IF gap > 1 THEN <<" ">>
    ELSE <<>>

\* What is added before an item that is not the first of its line.
GapSpaces(gap) ==
    IF gap > 5 THEN Spaces(Max(1, gap \div 5))
    ELSE IF gap > 1 THEN <<" ">>
    ELSE <<>>

\* Mutant of Indentation: one space for every 5 units, as between items.
IndentationByFive(x) == IF x \div 5 > 0 THEN Spaces(x \div 5) ELSE <<>>

\* What is added before the first item of a line.
Indentation(x) == IF x \div 6 > 0 THEN Spaces(x \div 6) ELSE <<>>

\* What one call of the items.forEach callback adds to lineText; lastXEnd is
\* <<>> for null and <<v>> for the number v.
ItemText(item, xEnd) ==
    (IF xEnd # <<>> THEN GapSpaces(item.x - xEnd[1]) ELSE Indentation(item.x)) \o item.text

\* Mutant of JoinPage: no page break is added.
JoinPageNoBreak(full, text, num, totalPages) == full \o text

\* if (pageNum < totalPages) fullText += pageText + '\n'; else fullText += pageText;
JoinPage(full, text, num, totalPages) ==
    IF num < totalPages THEN full \o text \o <<"\n">> ELSE full \o text

\* String.prototype.trim()
RECURSIVE TrimStart(_)
TrimStart(s) == IF s # <<>> /\ Head(s) \in Whitespace THEN TrimStart(Tail(s)) ELSE s

RECURSIVE TrimEnd(_)
TrimEnd(s) ==
    IF s # <<>> /\ s[Len(s)] \in Whitespace THEN TrimEnd(SubSeq(s, 1, Len(s) - 1)) ELSE s

Trim(s) == TrimEnd(TrimStart(s))

totalPages == Len(pdf)

\* const page = await pdf.getPage(pageNum); textContent, lines and lineMap.
GetPage ==
    /\ ppc = "getPage"
    /\ lineMap' = <<>>
    /\ itemIdx' = 1
    /\ ppc' = "group"
    /\ UNCHANGED <<hlVars, valVars, cfgVars, dispVars, runVars, appVars>>
    /\ UNCHANGED <<pdf, pageNum, sortedLines, lineIdx, lineText, lastXEnd, pageText,
                   fullText, pageTexts, extracted>>

\* textContent.items.forEach((item) => { ... })
GroupItem ==
    /\ ppc = "group"
    /\ itemIdx <= Len(pdf[pageNum])
    /\ lineMap' = AddToLineMap(lineMap, pdf[pageNum][itemIdx])
    /\ itemIdx' = itemIdx + 1
    /\ UNCHANGED <<hlVars, valVars, cfgVars, dispVars, runVars, appVars>>
    /\ UNCHANGED <<pdf, ppc, pageNum, sortedLines, lineIdx, lineText, lastXEnd,
                   pageText, fullText, pageTexts, extracted>>

\* const sortedLines = ...; let pageText = '';
SortPageLines ==
    /\ ppc = "group"
    /\ itemIdx > Len(pdf[pageNum])
    /\ sortedLines' = SortLines(lineMap)
    /\ pageText' = <<>>
    /\ lineIdx' = 1
    /\ ppc' = "lines"
    /\ UNCHANGED <<hlVars, valVars, cfgVars, dispVars, runVars, appVars>>
    /\ UNCHANGED <<pdf, pageNum, itemIdx, lineMap, lineText, lastXEnd, fullText,
                   pageTexts, extracted>>

\* sortedLines.forEach: items.sort(...) in place; let lineText = ''; let lastXEnd = null;
LineStart ==
    /\ ppc = "lines"
    /\ lineIdx <= Len(sortedLines)
    /\ sortedLines' = [sortedLines EXCEPT ![lineIdx].items = SortItemsByX(@)]
    /\ lineText' = <<>>
    /\ lastXEnd' = <<>>
    /\ itemIdx' = 1
    /\ ppc' = "items"
    /\ UNCHANGED <<hlVars, valVars, cfgVars, dispVars, runVars, appVars>>
    /\ UNCHANGED <<pdf, pageNum, lineMap, lineIdx, pageText, fullText, pageTexts,
                   extracted>>

\* items.forEach((item, index) => { ... })
AppendItem ==
    /\ ppc = "items"
    /\ itemIdx <= Len(sortedLines[lineIdx].items)
    /\ LET item == sortedLines[lineIdx].items[itemIdx]
       IN  /\ lineText' = lineText \o ItemText(item, lastXEnd)
           /\ lastXEnd' = <<item.x + item.width>>
    /\ itemIdx' = itemIdx + 1
    /\ UNCHANGED <<hlVars, valVars, cfgVars, dispVars, runVars, appVars>>
    /\ UNCHANGED <<pdf, ppc, pageNum, lineMap, sortedLines, lineIdx, pageText,
                   fullText, pageTexts, extracted>>

\* pageText += lineText + '\n';
LineEnd ==
    /\ ppc = "items"
    /\ itemIdx > Len(sortedLines[lineIdx].items)
    /\ pageText' = pageText \o lineText \o <<"\n">>
    /\ lineIdx' = lineIdx + 1
    /\ ppc' = "lines"
    /\ UNCHANGED <<hlVars, valVars, cfgVars, dispVars, runVars, appVars>>
    /\ UNCHANGED <<pdf, pageNum, itemIdx, lineMap, sortedLines, lineText, lastXEnd,
                   fullText, pageTexts, extracted>>

\* The page break, and pageNum++.
PageJoin ==
    /\ ppc = "lines"
    /\ lineIdx > Len(sortedLines)
    /\ fullText' = JoinPage(fullText, pageText, pageNum, totalPages)
    /\ pageTexts' = Append(pageTexts, pageText)
    /\ pageNum' = pageNum + 1
    /\ ppc' = IF pageNum + 1 <= totalPages THEN "getPage" ELSE "return"
    /\ UNCHANGED <<hlVars, valVars, cfgVars, dispVars, runVars, appVars>>
    /\ UNCHANGED <<pdf, itemIdx, lineMap, sortedLines, lineIdx, lineText, lastXEnd,
                   pageText, extracted>>

\* return fullText.trim();
ReturnText ==
    /\ ppc = "return"
    /\ extracted' = Trim(fullText)
    /\ ppc' = "done"
    /\ UNCHANGED <<hlVars, valVars, cfgVars, dispVars, runVars, appVars>>
    /\ UNCHANGED <<pdf, pageNum, itemIdx, lineMap, sortedLines, lineIdx, lineText,
                   lastXEnd, pageText, fullText, pageTexts>>

\* Mutant of CatchOutcome: the catch block returns the text built so far.
CatchOutcomeReturn(full) == [ppc |-> "done", extracted |-> Trim(full)]

\* catch (error) { throw new Error(`Failed to extract text from PDF: ...`) }:
\* the promise is rejected and has no value.
CatchOutcome(full) == [ppc |-> "failed", extracted |-> NULL]

\* Decoding fails: file.arrayBuffer() or getDocument rejects (before the first
\* page), or pdf.getPage or page.getTextContent rejects for page pageNum.
ExtractFail ==
    /\ ppc = "getPage"
    /\ ppc' = CatchOutcome(fullText).ppc
    /\ extracted' = CatchOutcome(fullText).extracted
    /\ UNCHANGED <<hlVars, valVars, cfgVars, dispVars, runVars, appVars>>
    /\ UNCHANGED <<pdf, pageNum, itemIdx, lineMap, sortedLines, lineIdx, lineText,
                   lastXEnd, pageText, fullText, pageTexts>>

\* createHighlightedSegments is not running.
HlIdle ==
    /\ originalText = <<>>
    /\ highlightRules = <<>>
    /\ pc = "idle"
    /\ highlights = <<>>
    /\ HlLocalsInit

\* The items of a one-page document, at every position and width, or such
\* that the callback skips them; the k-th item delivered carries the k-th
\* letter.
Letters == <<"A", "B", "C", "D">>
Xs == {0, 7, 40}
Ys == {1, 2, 3}
Widths == {0, 5, 30}

Items ==
    {TextItem(<<"A">>, TRUE, x, y, w) : x \in Xs, y \in Ys, w \in Widths}
    \cup {TextItem(<<>>, TRUE, 0, 2, 30), TextItem(<<"A">>, FALSE, 0, 0, 30)}

Lettered(items) ==
    [k \in 1..Len(items) |->
        IF items[k].str = <<>> THEN items[k]
        ELSE [items[k] EXCEPT !.str = <<Letters[k]>>]]

OnePages == UNION {[1..n -> Items] : n \in 0..MaxItems}

\* The pages of a document of several pages hold up to MaxPageItems items.
PageItems ==
    {TextItem(<<"A">>, TRUE, 0, 3, 5), TextItem(<<"B">>, TRUE, 0, 1, 5),
     TextItem(<<"C">>, TRUE, 7, 1, 5)}
Pages == UNION {[1..n -> PageItems] : n \in 0..MaxPageItems}
ManyPageDocs == UNION {[1..n -> Pages] : n \in 2..MaxPages}

InitPDF ==
    /\ \/ \E items \in OnePages : pdf = <<Lettered(items)>>
       \/ pdf \in ManyPageDocs
    /\ ppc = "getPage"
    /\ pageNum = 1
    /\ itemIdx = 0
    /\ lineMap = <<>>
    /\ sortedLines = <<>>
    /\ lineIdx = 0
    /\ lineText = <<>>
    /\ lastXEnd = <<>>
    /\ pageText = <<>>
    /\ fullText = <<>>
    /\ pageTexts = <<>>
    /\ extracted = NULL
    /\ HlIdle
    /\ ValIdle
    /\ AppIdle

NextPDF ==
    \/ GetPage
    \/ GroupItem
    \/ SortPageLines
    \/ LineStart
    \/ AppendItem
    \/ LineEnd
    \/ PageJoin
    \/ ReturnText
    \/ ExtractFail

SpecPDF == InitPDF /\ [][NextPDF]_vars


(***************************************************************************)
(* Properties of the layout reconstruction.                                *)
(***************************************************************************)

\* A line of the page has been built and is about to be added to pageText.
LineBuilt == ppc = "items" /\ itemIdx > Len(sortedLines[lineIdx].items)
\* Every line of the page has been added to pageText.
PageBuilt == ppc = "lines" /\ lineIdx > Len(sortedLines)

RECURSIVE DropLeadingSpaces(_)
DropLeadingSpaces(s) ==
    IF s # <<>> /\ Head(s) = " " THEN DropLeadingSpaces(Tail(s)) ELSE s

\* The number of spaces the spacing rule puts into a gap.
SpacesForGap(gap) == IF gap > 5 THEN gap \div 5 ELSE IF gap > 1 THEN 1 ELSE 0

\* Items k.. of a line, each behind the spaces of the gap to its predecessor.
RECURSIVE SpacedItems(_, _)
SpacedItems(items, k) ==
    IF k > Len(items) THEN <<>>
    ELSE Spaces(SpacesForGap(items[k].x - (items[k - 1].x + items[k - 1].width)))
         \o items[k].text \o SpacedItems(items, k + 1)

\* C8. Layout spacing: behind its indentation a line is its first item's
\* text and then, for each later item, floor(gap/5) spaces if gap > 5, one
\* space if 1 < gap <= 5 and nothing if gap <= 1, followed by the item's
\* text, where gap = item.x - (previous.x + previous.width).
LayoutSpacing ==
    LineBuilt =>
        LET items == sortedLines[lineIdx].items
        IN  DropLeadingSpaces(lineText) = items[1].text \o SpacedItems(items, 2)

\* C8 witness: an item of width 30 at x = 0 and an item at x = 40 on one
\* line give the two texts with two spaces between them.
LayoutSpacingWitness ==
    /\ LineBuilt
    /\ Len(sortedLines[lineIdx].items) = 2
    /\ sortedLines[lineIdx].items[1].x = 0
    /\ sortedLines[lineIdx].items[1].width = 30
    /\ sortedLines[lineIdx].items[2].x = 40
    /\ lineText = sortedLines[lineIdx].items[1].text \o <<" ", " ">>
                    \o sortedLines[lineIdx].items[2].text

NoSpaces(s) == SelectSeq(s, LAMBDA c : c # " ")
LettersOf(s) == SelectSeq(s, LAMBDA c : c \notin {" ", "\n"})

RECURSIVE ConcatItemTexts(_)
ConcatItemTexts(items) ==
    IF items = <<>> THEN <<>> ELSE Head(items).text \o ConcatItemTexts(Tail(items))

\* The texts of the lines k.., each line closed by a newline.
RECURSIVE LinesInOrder(_, _)
LinesInOrder(lines, k) ==
    IF k > Len(lines) THEN <<>>
    ELSE ConcatItemTexts(lines[k].items) \o <<"\n">> \o LinesInOrder(lines, k + 1)

RECURSIVE TotalItems(_)
TotalItems(lines) ==
    IF lines = <<>> THEN 0 ELSE Len(Head(lines).items) + TotalItems(Tail(lines))

\* The indexes of the items of a page that have a text and a position.
Positioned(page) ==
    {i \in 1..Len(page) : page[i].str # <<>> /\ page[i].hasTransform}

\* C9. Layout ordering: the lines of a page come out in strictly descending
\* order of their line key and the items of a line in non-decreasing order of
\* x, and they are the items delivered, in whatever order they were delivered.
LayoutOrdering ==
    PageBuilt =>
        /\ \A k, l \in 1..Len(sortedLines) :
              k < l => sortedLines[k].key > sortedLines[l].key
        /\ \A k \in 1..Len(sortedLines) :
              \A i, j \in 1..Len(sortedLines[k].items) :
                  i < j => sortedLines[k].items[i].x <= sortedLines[k].items[j].x
        /\ NoSpaces(pageText) = LinesInOrder(sortedLines, 1)
        /\ TotalItems(sortedLines) = Cardinality(Positioned(pdf[pageNum]))
        /\ \A i \in Positioned(pdf[pageNum]) :
              \E k \in 1..Len(sortedLines) :
                  /\ sortedLines[k].key = LineKey(pdf[pageNum][i].y)
                  /\ \E j \in 1..Len(sortedLines[k].items) :
                        /\ sortedLines[k].items[j].text = pdf[pageNum][i].str
                        /\ sortedLines[k].items[j].x = pdf[pageNum][i].x

\* C9 witness: the decoder delivered a lower line before a higher one and,
\* on one line, a right item before a left one.
LayoutOrderingWitness ==
    /\ PageBuilt
    /\ Len(sortedLines) = 2
    /\ \E i, j \in Positioned(pdf[pageNum]) :
          i < j /\ LineKey(pdf[pageNum][i].y) < LineKey(pdf[pageNum][j].y)
    /\ \E i, j \in Positioned(pdf[pageNum]) :
          i < j /\ LineKey(pdf[pageNum][i].y) = LineKey(pdf[pageNum][j].y)
                /\ pdf[pageNum][i].x > pdf[pageNum][j].x

\* The page texts k.., each but the last followed by one more newline.
RECURSIVE JoinedPages(_, _)
JoinedPages(texts, k) ==
    IF k > Len(texts) THEN <<>>
    ELSE texts[k] \o (IF k < Len(texts) THEN <<"\n">> ELSE <<>>) \o JoinedPages(texts, k + 1)

\* s without its leading and trailing whitespace.
Trimmed(s) ==
    LET inked == {i \in 1..Len(s) : s[i] \notin {" ", "\n"}}
    IN  IF inked = {} THEN <<>>
        ELSE SubSeq(s, CHOOSE i \in inked : \A j \in inked : i <= j,
                       CHOOSE i \in inked : \A j \in inked : j <= i)

\* C10. Page join: the document is the texts of the pages in page order,
\* every page but the last followed by one extra newline, with the leading
\* and trailing whitespace of the whole removed; a page without items has
\* the empty text and so adds only its separator.
PagesJoined ==
    ppc = "done" =>
        /\ Len(pageTexts) = Len(pdf)
        /\ \A p \in 1..Len(pdf) :
              /\ Len(LettersOf(pageTexts[p])) = Cardinality(Positioned(pdf[p]))
              /\ SeqRange(LettersOf(pageTexts[p])) = {pdf[p][i].str[1] : i \in Positioned(pdf[p])}
              /\ Positioned(pdf[p]) = {} => pageTexts[p] = <<>>
        /\ fullText = JoinedPages(pageTexts, 1)
        /\ extracted = Trimmed(JoinedPages(pageTexts, 1))
        /\ extracted # <<>> =>
              extracted[1] \notin {" ", "\n"} /\ extracted[Len(extracted)] \notin {" ", "\n"}

\* C10 witness: the one-line pages A and B give A, a blank line, B.
PagesJoinedWitness ==
    /\ ppc = "done"
    /\ Len(pdf) = 2
    /\ pageTexts = << <<"A", "\n">>, <<"B", "\n">> >>
    /\ extracted = <<"A", "\n", "\n", "B">>

\* Two items lie on the same line of the page being reconstructed.
OnSameLine(a, b) ==
    \E l \in 1..Len(sortedLines) :
        /\ \E k \in 1..Len(sortedLines[l].items) : sortedLines[l].items[k] = LineItem(a)
        /\ \E k \in 1..Len(sortedLines[l].items) : sortedLines[l].items[k] = LineItem(b)

\* C20. Line bucketing: once the items of a page are grouped, any two
\* positioned items of the page whose Y coordinates differ by at most 1 have
\* the same line key and lie on the same line.
LineBucketing ==
    ppc = "lines" =>
        \A i, j \in 1..Len(pdf[pageNum]) :
            LET a == pdf[pageNum][i]
                b == pdf[pageNum][j]
            IN  (~Skipped(a) /\ ~Skipped(b) /\ a.y - b.y <= 1 /\ b.y - a.y <= 1) =>
                    /\ LineKey(a.y) = LineKey(b.y)
                    /\ OnSameLine(a, b)

(***************************************************************************)
(* validateHighlightRules.                                                 *)
(***************************************************************************)
MaxValidated == 2   \* longest rule list that is validated

\* const validColors = Object.values(HIGHLIGHT_COLORS); validColors.includes(c)
ValidColorsInclude(c) ==
    /\ TypeOf(c) = "string"
    /\ c.chars = <<>>
    /\ \E i \in 1..Len(HIGHLIGHT_COLORS) : HIGHLIGHT_COLORS[i] = c.name

RuleError(index, message) == [rule |-> index + 1, message |-> message]

\* The callback of rules.forEach: the errors pushed for the rule at index.
RuleErrors(rule, index) ==
    (IF ~Truthy(rule.text) \/ TypeOf(rule.text) # "string" \/ Trim(rule.text.chars) = <<>>
     THEN <<RuleError(index, "Text is required and must be a non-empty string")>>
     ELSE <<>>)
    \o (IF ~Truthy(rule.color) \/ ~ValidColorsInclude(rule.color)
        THEN <<RuleError(index, "Color must be one of: red, green, yellow")>>
        ELSE <<>>)
    \o (IF TypeOf(rule.caseSensitive) # "undefined" /\ TypeOf(rule.caseSensitive) # "boolean"
        THEN <<RuleError(index, "caseSensitive must be a boolean")>>
        ELSE <<>>)

RECURSIVE ErrorsFrom(_, _)
ErrorsFrom(items, index) ==
    IF index >= Len(items) THEN <<>>
    ELSE RuleErrors(items[index + 1], index) \o ErrorsFrom(items, index + 1)

\* validateHighlightRules(arg), arg being [isArray, items].
validateHighlightRules(arg) ==
    IF ~arg.isArray
    THEN [isValid |-> FALSE, errors |-> <<[rule |-> 0, message |-> "Rules must be an array"]>>]
    ELSE LET errors == ErrorsFrom(arg.items, 0)
         IN  [isValid |-> Len(errors) = 0, errors |-> errors]

\* validateHighlightRules(rules) is called.
Validate ==
    /\ vpc = "call"
    /\ validation' = validateHighlightRules(rules)
    /\ vpc' = "returned"
    /\ UNCHANGED <<hlVars, pdfVars, appVars, rules, cfgVars, dispVars, runVars>>

\* The values a rule's fields are drawn from: absent, of the wrong type,
\* empty, blank and proper ones; the named colors, the hex colors of the
\* classifier and a color of neither kind.
ValidatedTexts == {Undefined, Num(5), Str(<<>>), Str(<<" ">>), Str(<<"a">>)}
ValidatedColors ==
    {Undefined, Name("red"), Name("green"), Name("yellow"), Name("#e74c3c"),
     Name("#f39c12"), Name("#27ae60"), Name("blue")}
ValidatedFlags == {Undefined, Bool(TRUE), Bool(FALSE), Name("yes")}

ValidatedRules ==
    {[text |-> t, color |-> c, caseSensitive |-> f] :
        t \in ValidatedTexts, c \in ValidatedColors, f \in ValidatedFlags}

InitValidate ==
    /\ \/ rules = [isArray |-> FALSE, items |-> <<>>]
       \/ \E items \in UNION {[1..n -> ValidatedRules] : n \in 0..MaxValidated} :
             rules = [isArray |-> TRUE, items |-> items]
    /\ validation = [isValid |-> TRUE, errors |-> <<>>]
    /\ vpc = "call"
    /\ ConfigIdle
    /\ HlIdle
    /\ PdfIdle
    /\ AppIdle

NextValidate ==
    \/ Validate

SpecValidate == InitValidate /\ [][NextValidate]_vars

\* A color of the shape '#RRGGBB', among the colors of the model.
IsHexLiteral(name) == name \in {"#e74c3c", "#f39c12", "#27ae60"}

\* A rule as the documented vocabulary accepts it.
AcceptableRule(rule) ==
    /\ TypeOf(rule.text) = "string"
    /\ Trim(rule.text.chars) # <<>>
    /\ TypeOf(rule.color) = "string"
    /\ rule.color.name \in {"red", "green", "yellow"} \/ IsHexLiteral(rule.color.name)
    /\ TypeOf(rule.caseSensitive) \in {"undefined", "boolean"}

\* C12. Rule validation vocabulary: a rule list is valid exactly when every
\* rule has a text that is non-empty after trim, a color that is red, green,
\* yellow or a '#RRGGBB' literal, and a caseSensitive that is absent or a
\* boolean.
ValidationVocabulary ==
    (vpc = "returned" /\ rules.isArray) =>
        (validation.isValid <=> \A i \in 1..Len(rules.items) : AcceptableRule(rules.items[i]))

(***************************************************************************)
(* analyzePolicyText, in its two versions: the one that asks Gemini and    *)
(* returns the array of sentences, and the one that asks the backend and   *)
(* returns { success, premiumEstimate, sentences }.                        *)
(***************************************************************************)
MaxSentences == 2   \* most entries of a classification response

\* An entry of the sentences array; isObject is FALSE for null.
Entry(isObject, sentence, color, riskLevel) ==
    [isObject |-> isObject, sentence |-> sentence, color |-> color,
     riskLevel |-> riskLevel]

\* What the classifier answered.  kind: the call failed ("networkError",
\* "httpError"), the body is no JSON ("parseError"), the JSON value is of
\* the wrong shape ("notObject", "successFalse") or it is "ok"; then isArray
\* tells whether the sentences are an array.
Reply(kind, isArray, sentences, estimate) ==
    [kind |-> kind, isArray |-> isArray, sentences |-> sentences,
     premiumEstimate |-> estimate]

\* The settled promise of analyzePolicyText.
Resolved(sentences, estimate) ==
    [ok |-> TRUE, sentences |-> sentences, premiumEstimate |-> estimate,
     message |-> <<>>]
Rejected(message) ==
    [ok |-> FALSE, sentences |-> <<>>, premiumEstimate |-> NULL,
     message |-> message]

IndexStr(index) == <<"0", "1", "2", "3">>[index + 1]

\* item.riskLevel || (item.color === '#e74c3c' ? 'high' : ... )
RiskLevel(item) ==
    IF Truthy(item.riskLevel) THEN item.riskLevel
    ELSE IF item.color.name = "#e74c3c" THEN Name("high")
    ELSE IF item.color.name = "#f39c12" THEN Name("medium")
    ELSE Name("favorable")

\* The callback of sentences.map for the item at index: the normalized
\* entry, or the error it throws (reading a field of null is a TypeError).
ValidateEntry(item, index) ==
    IF ~item.isObject
    THEN [ok |-> FALSE, value |-> NULL,
          message |-> <<"Cannot read properties of null (reading 'sentence')">>]
    ELSE IF ~Truthy(item.sentence) \/ TypeOf(item.sentence) # "string"
    THEN [ok |-> FALSE, value |-> NULL,
          message |-> <<"Invalid sentence at index ", IndexStr(index),
                        ": missing or invalid sentence field">>]
    ELSE IF ~Truthy(item.color) \/ TypeOf(item.color) # "string"
    THEN [ok |-> FALSE, value |-> NULL,
          message |-> <<"Invalid color at index ", IndexStr(index),
                        ": missing or invalid color field">>]
    ELSE [ok |-> TRUE,
          value |-> [sentence |-> Trim(item.sentence.chars),
                     color |-> item.color.name,
                     riskLevel |-> RiskLevel(item)],
          message |-> <<>>]

\* Mutant of MapEntries: an invalid entry is left out and the rest is kept.
RECURSIVE MapEntriesFilter(_, _)
MapEntriesFilter(items, index) ==
    IF index >= Len(items) THEN [ok |-> TRUE, sentences |-> <<>>, message |-> <<>>]
    ELSE LET v == ValidateEntry(items[index + 1], index)
             rest == MapEntriesFilter(items, index + 1)
         IN  IF v.ok
             THEN [rest EXCEPT !.sentences = <<v.value>> \o @]
             ELSE rest

\* sentences.map((item, index) => { ... }) from index on: the first throw
\* ends the map and nothing is returned.
RECURSIVE MapEntries(_, _)
MapEntries(items, index) ==
    IF index >= Len(items) THEN [ok |-> TRUE, sentences |-> <<>>, message |-> <<>>]
    ELSE LET v == ValidateEntry(items[index + 1], index)
         IN  IF ~v.ok THEN [ok |-> FALSE, sentences |-> <<>>, message |-> v.message]
             ELSE LET rest == MapEntries(items, index + 1)
                  IN  IF rest.ok
                      THEN [rest EXCEPT !.sentences = <<v.value>> \o @]
                      ELSE rest

\* throw new Error(`Failed to analyze policy text: ${error.message}`)
Wrapped(message) == Rejected(<<"Failed to analyze policy text: ">> \o message)

\* The Gemini version from the try block on: JSON.parse, Array.isArray, map.
GeminiOutcome(r) ==
    IF r.kind # "ok" THEN Wrapped(<<"Unexpected token in JSON">>)
    ELSE IF ~r.isArray THEN Wrapped(<<"Invalid response format: expected an array">>)
    ELSE LET v == MapEntries(r.sentences, 0)
         IN  IF v.ok THEN Resolved(v.sentences, NULL) ELSE Wrapped(v.message)

\* The backend version from the try block on: fetch, response.ok,
\* response.json(), the checks of the shape, map, and the catch block.
BackendOutcome(r) ==
    CASE r.kind = "networkError" ->
            Rejected(<<"Failed to connect to backend server at ", "BACKEND_URL">>)
      [] r.kind = "httpError" -> Wrapped(<<"Backend API error: ", "status">>)
      [] r.kind = "parseError" -> Wrapped(<<"Unexpected token in JSON">>)
      [] r.kind = "notObject" -> Wrapped(<<"Invalid response format: expected an object">>)
      [] r.kind = "successFalse" -> Wrapped(<<"Backend analysis failed">>)
      [] OTHER ->
            IF ~r.isArray
            THEN Wrapped(<<"Invalid response format: sentences must be an array">>)
            ELSE LET v == MapEntries(r.sentences, 0)
                 IN  IF v.ok THEN Resolved(v.sentences, r.premiumEstimate)
                     ELSE Wrapped(v.message)

modelNamesToTry == <<"gemini-2.0-flash", "gemini-pro", "gemini-1.5-pro", "gemini-1.5-flash">>

\* analyzePolicyText(text) up to its first await: the position it waits at,
\* or the error it throws before it.
AnalysisStart(v, client, text) ==
    IF v = "gemini" /\ client = NULL
    THEN [anpc |-> "rejected",
          analysis |-> Rejected(<<"Google API key is not configured.">>)]
    ELSE IF text = <<>> \/ Len(Trim(text)) = 0
    THEN [anpc |-> "rejected", analysis |-> Rejected(<<"Policy text is empty">>)]
    ELSE [anpc |-> IF v = "gemini" THEN "models" ELSE "fetch", analysis |-> NULL]

(***************************************************************************)
(* App: handleFileSelect, and the render of HighlightedTextDisplay.  Runs  *)
(* of handleFileSelect follow one another; render is synchronous, so no    *)
(* step of a handler happens while createHighlightedSegments is running.   *)
(***************************************************************************)
EngineQuiet == pc \in {"idle", "done"}

\* The documents a user uploads: one page of two lines, two pages, and a
\* page without text.
AppDocs ==
    {<< <<TextItem(<<"A">>, TRUE, 0, 3, 5), TextItem(<<"B">>, TRUE, 0, 1, 5)>> >>,
     << <<TextItem(<<"A">>, TRUE, 0, 3, 5)>>, <<TextItem(<<"B">>, TRUE, 0, 1, 5)>> >>,
     << <<>> >>}

\* handleFileSelect up to await extractTextFromPDF(file); the upload UI is
\* rendered only while extractedText is empty.
HandleFileSelect ==
    /\ apc \in {"idle", "done"}
    /\ EngineQuiet
    /\ extractedText = <<>>
    /\ isLoading' = TRUE
    /\ error' = <<>>
    /\ stateHighlightRules' = <<>>
    /\ apc' = "extracting"
    /\ pdf' \in AppDocs
    /\ ppc' = "getPage"
    /\ pageNum' = 1
    /\ itemIdx' = 0
    /\ lineMap' = <<>>
    /\ sortedLines' = <<>>
    /\ lineIdx' = 0
    /\ lineText' = <<>>
    /\ lastXEnd' = <<>>
    /\ pageText' = <<>>
    /\ fullText' = <<>>
    /\ pageTexts' = <<>>
    /\ extracted' = NULL
    /\ anpc' = "idle"
    /\ modelIdx' = 1
    /\ lastError' = <<>>
    /\ reply' = Reply("none", FALSE, <<>>, NULL)
    /\ analysis' = NULL
    /\ UNCHANGED <<hlVars, valVars, cfgVars, dispVars, runVars>>
    /\ UNCHANGED <<variant, genAI, isAnalyzing, extractedText, premiumEstimate,
                   modifiedText>>

\* extractTextFromPDF resolved: setExtractedText(text); setIsLoading(false);
\* setIsAnalyzing(true); and analyzePolicyText(text) is called.
ExtractionResolved ==
    /\ apc = "extracting"
    /\ ppc = "done"
    /\ EngineQuiet
    /\ extractedText' = extracted
    /\ isLoading' = FALSE
    /\ isAnalyzing' = TRUE
    /\ LET s == AnalysisStart(variant, genAI, extracted)
       IN  /\ anpc' = s.anpc
           /\ analysis' = s.analysis
    /\ apc' = "analyzing"
    /\ UNCHANGED <<hlVars, pdfVars, valVars, cfgVars, dispVars, runVars>>
    /\ UNCHANGED <<variant, genAI, stateHighlightRules, premiumEstimate, error,
                   modifiedText, modelIdx, lastError, reply>>

\* extractTextFromPDF rejected: the outer catch block.
ExtractionFailed ==
    /\ apc = "extracting"
    /\ ppc = "failed"
    /\ EngineQuiet
    /\ error' = <<"Error: ", "Failed to extract text from PDF: ", "decoder error">>
    /\ isLoading' = FALSE
    /\ apc' = "done"
    /\ UNCHANGED <<hlVars, pdfVars, valVars, cfgVars, dispVars, runVars>>
    /\ UNCHANGED <<variant, genAI, isAnalyzing, extractedText, stateHighlightRules,
                   premiumEstimate, modifiedText, anpc, modelIdx, lastError, reply,
                   analysis>>

\* Mutant of HasNextModel: the loop gives up after the first failure.
HasNextModelNever(idx) == FALSE

\* for (const modelName of modelNamesToTry): there is a model after the idx-th.
HasNextModel(idx) == idx < Len(modelNamesToTry)

\* for (const modelName of modelNamesToTry): generateContent throws; after
\* the last model, if (!result) throw new Error('No working Gemini model found ...').
ModelFails ==
    /\ anpc = "models"
    /\ EngineQuiet
    /\ lastError' = <<modelIdx>>
    /\ IF HasNextModel(modelIdx)
       THEN /\ modelIdx' = modelIdx + 1
            /\ UNCHANGED <<anpc, analysis>>
       ELSE /\ anpc' = "rejected"
            /\ analysis' = Rejected(<<"No working Gemini model found. Tried: ",
                                      "Last error: ", modelNamesToTry[modelIdx]>>)
            /\ UNCHANGED modelIdx
    /\ UNCHANGED <<hlVars, pdfVars, valVars, cfgVars, dispVars, runVars>>
    /\ UNCHANGED <<variant, genAI, apc, isLoading, isAnalyzing, extractedText,
                   stateHighlightRules, premiumEstimate, error, modifiedText, reply>>

\* generateContent succeeds for modelNamesToTry[modelIdx]: break.
ModelSucceeds ==
    /\ anpc = "models"
    /\ EngineQuiet
    /\ anpc' = "response"
    /\ UNCHANGED <<hlVars, pdfVars, valVars, cfgVars, dispVars, runVars>>
    /\ UNCHANGED <<variant, genAI, apc, isLoading, isAnalyzing, extractedText,
                   stateHighlightRules, premiumEstimate, error, modifiedText,
                   modelIdx, lastError, reply, analysis>>

\* The values the fields of a classification entry are drawn from: absent,
\* of the wrong type, empty, blank, proper, and proper once trimmed.
SentenceValues ==
    {Undefined, Num(5), Str(<<>>), Str(<<" ">>), Str(<<"a">>), Str(<<" ", "B", " ">>)}
ColorValues == {Undefined, Num(1), Name("#e74c3c"), Name("#f39c12"), Name("#27ae60")}
RiskValues == {Undefined, Name("high")}
Entries ==
    {Entry(TRUE, s, c, r) : s \in SentenceValues, c \in ColorValues, r \in RiskValues}
    \cup {Entry(FALSE, Undefined, Undefined, Undefined)}
SentenceLists == UNION {[1..n -> Entries] : n \in 0..MaxSentences}
Estimates == {NULL, "estimate"}

\* const text = response.text(); ... the try block of the Gemini version.
GeminiResponds ==
    /\ anpc = "response"
    /\ EngineQuiet
    /\ \/ reply' = Reply("parseError", FALSE, <<>>, NULL)
       \/ reply' = Reply("ok", FALSE, <<>>, NULL)
       \/ \E s \in SentenceLists : reply' = Reply("ok", TRUE, s, NULL)
    /\ analysis' = GeminiOutcome(reply')
    /\ anpc' = IF analysis'.ok THEN "resolved" ELSE "rejected"
    /\ UNCHANGED <<hlVars, pdfVars, valVars, cfgVars, dispVars, runVars>>
    /\ UNCHANGED <<variant, genAI, apc, isLoading, isAnalyzing, extractedText,
                   stateHighlightRules, premiumEstimate, error, modifiedText,
                   modelIdx, lastError>>

\* const response = await fetch(...); ... the try block of the backend version.
BackendResponds ==
    /\ anpc = "fetch"
    /\ EngineQuiet
    /\ \/ \E k \in {"networkError", "httpError", "parseError", "notObject", "successFalse"} :
             reply' = Reply(k, FALSE, <<>>, NULL)
       \/ \E e \in Estimates : reply' = Reply("ok", FALSE, <<>>, e)
       \/ \E s \in SentenceLists, e \in Estimates : reply' = Reply("ok", TRUE, s, e)
    /\ analysis' = BackendOutcome(reply')
    /\ anpc' = IF analysis'.ok THEN "resolved" ELSE "rejected"
    /\ UNCHANGED <<hlVars, pdfVars, valVars, cfgVars, dispVars, runVars>>
    /\ UNCHANGED <<variant, genAI, apc, isLoading, isAnalyzing, extractedText,
                   stateHighlightRules, premiumEstimate, error, modifiedText,
                   modelIdx, lastError>>

\* Mutant of RulesOf: a sentence that is empty makes no rule.
RulesOfNonEmpty(sentences) ==
    LET kept == SelectSeq(sentences, LAMBDA s : s.sentence # <<>>)
    IN  [i \in 1..Len(kept) |->
            [text |-> kept[i].sentence, color |-> kept[i].color, caseSensitive |-> FALSE]]

\* sentences.map((result) => ({ text: result.sentence, color: result.color,
\* caseSensitive: false }))
RulesOf(sentences) ==
    [i \in 1..Len(sentences) |->
        [text |-> sentences[i].sentence, color |-> sentences[i].color,
         caseSensitive |-> FALSE]]

\* analyzePolicyText resolved: the premium estimate (backend version), the
\* rules, and the finally block.
AnalysisSucceeded ==
    /\ apc = "analyzing"
    /\ anpc = "resolved"
    /\ EngineQuiet
    /\ premiumEstimate' = IF variant = "backend" /\ analysis.premiumEstimate # NULL
                          THEN analysis.premiumEstimate
                          ELSE premiumEstimate
    /\ stateHighlightRules' = RulesOf(analysis.sentences)
    /\ isAnalyzing' = FALSE
    /\ apc' = "done"
    /\ UNCHANGED <<hlVars, pdfVars, valVars, cfgVars, dispVars, runVars>>
    /\ UNCHANGED <<variant, genAI, isLoading, extractedText, error, modifiedText,
                   anpc, modelIdx, lastError, reply, analysis>>

\* Mutant of AnalysisCatch: the error is handled by the outer catch block.
AnalysisCatchOuter(message) ==
    [error |-> <<"Error: ">> \o message, isAnalyzing |-> TRUE]

\* Mutant of AnalysisCatch: there is no finally block.
AnalysisCatchNoFinally(message) ==
    [error |-> <<"Analysis error: ">> \o message, isAnalyzing |-> TRUE]

\* catch (geminiError) { setError(`Analysis error: ${...message}`) }
\* finally { setIsAnalyzing(false) }
AnalysisCatch(message) ==
    [error |-> <<"Analysis error: ">> \o message, isAnalyzing |-> FALSE]

\* analyzePolicyText rejected: the inner catch block and the finally block.
AnalysisFailed ==
    /\ apc = "analyzing"
    /\ anpc = "rejected"
    /\ EngineQuiet
    /\ error' = AnalysisCatch(analysis.message).error
    /\ isAnalyzing' = AnalysisCatch(analysis.message).isAnalyzing
    /\ apc' = "done"
    /\ UNCHANGED <<hlVars, pdfVars, valVars, cfgVars, dispVars, runVars>>
    /\ UNCHANGED <<variant, genAI, isLoading, extractedText, stateHighlightRules,
                   premiumEstimate, modifiedText, anpc, modelIdx, lastError, reply,
                   analysis>>

\* const displayText = modifiedText || text, modifiedText being useState(text).
DisplayText(modified, text) == IF modified # <<>> THEN modified ELSE text

\* App renders HighlightedTextDisplay (extractedText is not empty), which
\* calls createHighlightedSegments(displayText, highlightRules).
RenderText ==
    /\ EngineQuiet
    /\ extractedText # <<>>
    /\ modifiedText' = DisplayText(modifiedText, extractedText)
    /\ originalText' = DisplayText(modifiedText, extractedText)
    /\ highlightRules' = stateHighlightRules
    /\ pc' = "start"
    /\ highlights' = <<>>
    /\ ruleIdx' = 1
    /\ lastIndex' = 0
    /\ merged' = <<>>
    /\ current' = NoSpan
    /\ currentRef' = 0
    /\ mergedRefs' = <<>>
    /\ mi' = 0
    /\ mergedHighlights' = <<>>
    /\ segIdx' = 1
    /\ segments' = <<>>
    /\ currentIndex' = 0
    /\ result' = <<>>
    /\ UNCHANGED <<pdfVars, valVars, cfgVars, dispVars, runVars>>
    /\ UNCHANGED <<variant, genAI, apc, isLoading, isAnalyzing, extractedText,
                   stateHighlightRules, premiumEstimate, error, anpc, modelIdx,
                   lastError, reply, analysis>>

InitApp ==
    /\ \/ variant = "gemini" /\ genAI \in {NULL, "client"}
       \/ variant = "backend" /\ genAI = NULL
    /\ apc = "idle"
    /\ AppMounted
    /\ AnalysisIdle
    /\ HlIdle
    /\ PdfIdle
    /\ ValIdle

NextApp ==
    \/ HandleFileSelect
    \/ GetPage
    \/ GroupItem
    \/ SortPageLines
    \/ LineStart
    \/ AppendItem
    \/ LineEnd
    \/ PageJoin
    \/ ReturnText
    \/ ExtractFail
    \/ ExtractionResolved
    \/ ExtractionFailed
    \/ ModelFails
    \/ ModelSucceeds
    \/ GeminiResponds
    \/ BackendResponds
    \/ AnalysisSucceeded
    \/ AnalysisFailed
    \/ RenderText
    \/ EarlyReturn
    \/ BeginMatching
    \/ ExecMatch
    \/ ExecNull
    \/ SortHighlights
    \/ MergeEnter
    \/ MergeStep
    \/ MergeReturn
    \/ SegmentStep
    \/ SegmentReturn

SpecApp == InitApp /\ [][NextApp]_vars

(***************************************************************************)
(* Properties of the upload flow.                                          *)
(***************************************************************************)

\* C11. No blank rule reaches the matcher: whenever the application calls
\* createHighlightedSegments, every rule it passes has a text that is not
\* empty after trimming.
NoBlankRule ==
    pc = "start" =>
        \A i \in 1..Len(highlightRules) : Trim(highlightRules[i].text) # <<>>

\* The entry has a sentence and a color that are strings.
HasStringFields(e) ==
    e.isObject /\ e.sentence.type = "string" /\ e.color.type = "string"

\* The classifier answered with a payload whose sentences are no array or
\* hold an entry without a string sentence or a string color.
MalformedPayload ==
    /\ reply.kind = "ok"
    /\ \/ ~reply.isArray
       \/ \E i \in 1..Len(reply.sentences) : ~HasStringFields(reply.sentences[i])

DecodeFailure ==
    /\ ppc = "done" => Len(pageTexts) = totalPages
    /\ ppc = "failed" =>
          /\ extractedText = <<>>
          /\ stateHighlightRules = <<>>
          /\ anpc = "idle"
          /\ ~isAnalyzing
          /\ apc \in {"extracting", "done"}
          /\ apc = "extracting" => isLoading /\ error = <<>>
          /\ apc = "done" =>
                /\ ~isLoading
                /\ error = <<"Error: ", "Failed to extract text from PDF: ", "decoder error">>

\* C14 witness: decoding failed on the second page, after the first page's
\* text was built, and the handler has run.
DecodeFailureWitness ==
    /\ ppc = "failed"
    /\ apc = "done"
    /\ pageNum = 2
    /\ fullText # <<>>
    /\ error # <<>>
    /\ extractedText = <<>>

\* C15. Analysis failure is a degraded success: when extraction succeeded
\* and analyzePolicyText is rejected, the run ends with the extracted text
\* in extractedText, no rules, an 'Analysis error' message and isAnalyzing
\* false; the document is rendered as one segment that is not highlighted.
DegradedSuccess ==
    (apc = "done" /\ anpc = "rejected") =>
        /\ ppc = "done"
        /\ extractedText = extracted
        /\ stateHighlightRules = <<>>
        /\ error = <<"Analysis error: ">> \o analysis.message
        /\ ~isAnalyzing
        /\ ~isLoading
        /\ pc = "done" =>
              result = <<[text |-> extractedText, highlighted |-> FALSE, color |-> NULL]>>

\* C15 witness: the analysis of a document with text failed after the
\* classifier answered, and the document has been rendered.
DegradedSuccessWitness ==
    /\ apc = "done"
    /\ anpc = "rejected"
    /\ reply.kind # "none"
    /\ extractedText # <<>>
    /\ pc = "done"
    /\ Len(result) = 1
    /\ error # <<>>

\* C16. Classification-to-rule conversion: after a successful analysis the
\* rules are, entry by entry and in order, {text: the entry's sentence
\* (trimmed by the validation), color: the entry's color, caseSensitive:
\* false}.
RuleConversion ==
    (apc = "done" /\ anpc = "resolved") =>
        /\ Len(stateHighlightRules) = Len(analysis.sentences)
        /\ Len(stateHighlightRules) = Len(reply.sentences)
        /\ \A i \in 1..Len(stateHighlightRules) :
              /\ stateHighlightRules[i].text = analysis.sentences[i].sentence
              /\ stateHighlightRules[i].text = Trim(reply.sentences[i].sentence.chars)
              /\ stateHighlightRules[i].color = analysis.sentences[i].color
              /\ stateHighlightRules[i].color = reply.sentences[i].color.name
              /\ stateHighlightRules[i].caseSensitive = FALSE

\* C16 witness: two entries of different sentences and colors became two
\* rules in the same order.
RuleConversionWitness ==
    /\ apc = "done"
    /\ anpc = "resolved"
    /\ Len(stateHighlightRules) = 2
    /\ stateHighlightRules[1].text = <<"B">>
    /\ stateHighlightRules[2].text = <<"a">>
    /\ stateHighlightRules[1].color = "#27ae60"
    /\ stateHighlightRules[2].color = "#e74c3c"

\* The lines of a text: its parts between newlines.
RECURSIVE SplitLines(_)
SplitLines(s) ==
    LET breaks == {i \in 1..Len(s) : s[i] = "\n"}
    IN  IF breaks = {} THEN <<s>>
        ELSE LET b == CHOOSE i \in breaks : \A j \in breaks : i <= j
             IN  <<SubSeq(s, 1, b - 1)>> \o SplitLines(SubSeq(s, b + 1, Len(s)))

\* line begins with exactly n spaces followed directly by text.
BeginsWith(line, n, text) ==
    /\ Len(line) >= n + Len(text)
    /\ SubSeq(line, 1, n + Len(text)) = Spaces(n) \o text

\* The line of the returned document that was built from the k-th line of
\* the last page: the last page's lines are the last lines of the document.
LastPageLine(k) ==
    Len(SplitLines(extracted)) - Len(sortedLines) + k

\* C21 as claimed. Line indentation: every line of the returned document
\* begins with exactly floor(x/6) spaces, x being the x coordinate of the
\* line's leftmost item, followed directly by that item's text.
IndentedLines ==
    (ppc = "done" /\ sortedLines # <<>>) =>
        \A k \in 1..Len(sortedLines) :
            LET first == sortedLines[k].items[1]
            IN  BeginsWith(SplitLines(extracted)[LastPageLine(k)], first.x \div 6, first.text)

\* C21 as amended. Every line is built beginning with exactly floor(x/6)
\* spaces, x being the x coordinate of its leftmost item, followed directly
\* by that item's text; in the returned document this holds for every line
\* but the first, which the final trim leaves without indentation.
IndentedLinesButFirst ==
    /\ LineBuilt =>
          LET first == sortedLines[lineIdx].items[1]
          IN  /\ BeginsWith(lineText, first.x \div 6, first.text)
              /\ \A j \in 1..Len(sortedLines[lineIdx].items) :
                    first.x <= sortedLines[lineIdx].items[j].x
    /\ (ppc = "done" /\ sortedLines # <<>>) =>
          \A k \in 1..Len(sortedLines) :
              LET first == sortedLines[k].items[1]
                  line == SplitLines(extracted)[LastPageLine(k)]
              IN  IF LastPageLine(k) = 1
                  THEN BeginsWith(line, 0, first.text)
                  ELSE BeginsWith(line, first.x \div 6, first.text)

\* C21 witness: a document of two lines that were both built with
\* indentation, returned with the first line's indentation trimmed off.
IndentedLinesWitness ==
    /\ ppc = "done"
    /\ Len(pdf) = 1
    /\ Len(sortedLines) = 2
    /\ sortedLines[1].items[1].x >= 6
    /\ sortedLines[2].items[1].x >= 12
    /\ extracted[1] # " "
    /\ Len(SplitLines(extracted)) = 2
    /\ SplitLines(extracted)[2][1] = " "

\* An item with empty text or without position data.
EmptyOrUnplaced(item) == item.str = <<>> \/ ~item.hasTransform

\* The page with such items removed.
WithoutSkipped(items) == SelectSeq(items, LAMBDA item : ~EmptyOrUnplaced(item))

\* The lines a page's items are grouped into, item after item.
RECURSIVE LineMapOf(_)
LineMapOf(items) ==
    IF items = <<>> THEN <<>>
    ELSE AddToLineMap(LineMapOf(SubSeq(items, 1, Len(items) - 1)), items[Len(items)])

\* The text of a line, from its items in x order.
RECURSIVE LineTextOf(_)
LineTextOf(items) ==
    IF items = <<>> THEN <<>>
    ELSE LET before == SubSeq(items, 1, Len(items) - 1)
             item == items[Len(items)]
         IN  LineTextOf(before)
                 \o ItemText(item, IF before = <<>> THEN <<>>
                                   ELSE <<before[Len(before)].x + before[Len(before)].width>>)

\* The text of a page, from its lines top to bottom.
RECURSIVE PageLinesText(_)
PageLinesText(lines) ==
    IF lines = <<>> THEN <<>>
    ELSE LineTextOf(SortItemsByX(Head(lines).items)) \o <<"\n">> \o PageLinesText(Tail(lines))

PageTextOf(items) == PageLinesText(SortLines(LineMapOf(items)))

\* The text of a document, from the texts of its pages.
RECURSIVE DocTextFrom(_, _)
DocTextFrom(doc, k) ==
    IF k = 0 THEN <<>>
    ELSE JoinPage(DocTextFrom(doc, k - 1), PageTextOf(doc[k]), k, Len(doc))

\* C22. Skipped items: an item with empty text or without position data
\* creates no line and adds no characters, and the document returned is the
\* one returned for the same pages with such items removed.
SkippedItems ==
    /\ ppc = "group" =>
          lineMap = LineMapOf(WithoutSkipped(SubSeq(pdf[pageNum], 1, itemIdx - 1)))
    /\ PageBuilt => pageText = PageTextOf(WithoutSkipped(pdf[pageNum]))
    /\ ppc = "done" =>
          extracted = Trim(DocTextFrom([p \in 1..Len(pdf) |-> WithoutSkipped(pdf[p])], Len(pdf)))

\* C22 witness: a document was returned for a page on which an item without
\* text or without position came between two items of one line.
SkippedItemsWitness ==
    /\ ppc = "done"
    /\ Len(pdf) = 1
    /\ Len(pdf[1]) = 3
    /\ ~EmptyOrUnplaced(pdf[1][1])
    /\ EmptyOrUnplaced(pdf[1][2])
    /\ ~pdf[1][2].hasTransform
    /\ ~EmptyOrUnplaced(pdf[1][3])
    /\ LineKey(pdf[1][1].y) = LineKey(pdf[1][3].y)
    /\ pdf[1][1].x < pdf[1][3].x
    /\ Len(extracted) > 2

\* The spans in hs that carry color c: those of the rule given that color.
SpansOfColor(hs, c) == Cardinality({i \in DOMAIN hs : hs[i].color = c})

\* C23. Scan termination: every match moves the scan position forward (by
\* one past a zero-length match), the position never passes the document
\* length plus one, each rule yields at most document length + 1 spans, and
\* the matching loop of every rule list ends.
ScanTermination ==
    /\ [][(pc = "exec" /\ highlights' # highlights) =>
              /\ lastIndex' > lastIndex
              /\ lastIndex' <= Len(originalText) + 1]_vars
    /\ [](\A k \in DOMAIN HIGHLIGHT_COLORS :
            SpansOfColor(highlights, HIGHLIGHT_COLORS[k]) <= Len(originalText) + 1)
    /\ (pc = "exec") ~> (pc = "sort")

\* C23 witness: a rule with empty text, whose pattern matches the empty
\* string at every position, has been scanned to the end of the longest
\* document and has yielded document length + 1 spans.
ScanTerminationWitness ==
    /\ pc = "sort"
    /\ Len(originalText) = MaxDocLen
    /\ highlightRules[1].text = <<>>
    /\ SpansOfColor(highlights, highlightRules[1].color) = MaxDocLen + 1
    /\ \A i \in DOMAIN highlights :
          highlights[i].color = highlightRules[1].color =>
              highlights[i].start = highlights[i].end

\* mergeOverlappingHighlights is running.
InMerge == pc \in {"merge", "mergeLoop"}

\* C24. Stage ownership: while mergeOverlappingHighlights runs, the span list
\* it was given and the spans in it stay as they are, and current and every
\* span it emits are objects it created itself, none of them a span of the
\* given list; no step of createHighlightedSegments changes the rules array
\* or the document.
StageOwnership ==
    /\ [][InMerge => highlights' = highlights]_vars
    /\ [](currentRef = 0 /\ \A i \in DOMAIN mergedRefs : mergedRefs[i] = 0)
    /\ [](Len(mergedRefs) = Len(merged))
    /\ [][pc # "done" =>
            /\ highlightRules' = highlightRules
            /\ originalText' = originalText]_vars

\* C24 witness: the merge has returned after it emitted both a span carried
\* over without overlap and the prefix of an overlapped span.
StageOwnershipWitness ==
    /\ pc = "segment"
    /\ Len(highlights) = 3
    /\ highlights[2].start >= highlights[1].end
    /\ highlights[3].start < highlights[2].end
    /\ highlights[3].start > highlights[2].start
    /\ Len(mergedHighlights) = 3
    /\ Len(mergedRefs) = 3

(***************************************************************************)
(* HighlightConfig: the form that adds, removes and recolors rules.        *)
(***************************************************************************)
MaxConfigRules == 2   \* longest rule list the form is given or builds

\* Mutant of UpdatedRules: the new rule is put first.
UpdatedRulesFirst(list, rule) == <<rule>> \o list

\* const updatedRules = [...highlightRules, { ...newRule }];
UpdatedRules(list, rule) == Append(list, rule)

\* handleAddRule, from the prop and the form state it sees: whether
\* onRulesChange is called and with what, and the state it sets.
AddRuleOutcome(list, rule) ==
    IF Trim(rule.text.chars) = <<>>
    THEN [called |-> FALSE, rules |-> list, newRule |-> rule,
          error |-> [rule |-> 0, message |-> "Please enter text to highlight"]]
    ELSE LET updatedRules == UpdatedRules(list, rule)
             v == validateHighlightRules([isArray |-> TRUE, items |-> updatedRules])
         IN  IF ~v.isValid
             THEN [called |-> FALSE, rules |-> list, newRule |-> rule,
                   error |-> v.errors[1]]
             ELSE [called |-> TRUE, rules |-> updatedRules, newRule |-> EmptyRule,
                   error |-> NoError]

\* The Add Rule button, or Enter in the text input.  The parent takes the
\* list passed to onRulesChange as the new prop.
HandleAddRule ==
    /\ Len(configRules) < MaxConfigRules
    /\ LET out == AddRuleOutcome(configRules, newRule)
       IN  /\ called' = out.called
           /\ configRules' = out.rules
           /\ newRule' = out.newRule
           /\ configError' = out.error
    /\ UNCHANGED <<hlVars, pdfVars, appVars, valVars, runVars, dispVars>>

\* highlightRules.filter((_, i) => i !== index)
WithoutIndex(list, index) ==
    [i \in 1..(Len(list) - 1) |-> IF i <= index THEN list[i] ELSE list[i + 1]]

\* handleRemoveRule(index), index 0-based.
HandleRemoveRule ==
    /\ \E index \in 0..(Len(configRules) - 1) :
          configRules' = WithoutIndex(configRules, index)
    /\ called' = TRUE
    /\ UNCHANGED <<hlVars, pdfVars, appVars, valVars, runVars, dispVars, newRule, configError>>

\* handleColorChange(index, newColor), from the select of a rule.
HandleColorChange ==
    /\ \E index \in 0..(Len(configRules) - 1), k \in DOMAIN HIGHLIGHT_COLORS :
          /\ configRules[index + 1].color # Name(HIGHLIGHT_COLORS[k])
          /\ configRules' = [configRules EXCEPT ![index + 1].color = Name(HIGHLIGHT_COLORS[k])]
    /\ called' = TRUE
    /\ UNCHANGED <<hlVars, pdfVars, appVars, valVars, runVars, dispVars, newRule, configError>>

\* What is typed into the text input.
ConfigTexts == {<<>>, <<" ">>, <<"a">>, <<" ", "a">>}

\* onChange of the text input.
ChangeText ==
    /\ \E t \in ConfigTexts :
          /\ t # newRule.text.chars
          /\ newRule' = [newRule EXCEPT !.text = Str(t)]
    /\ UNCHANGED <<hlVars, pdfVars, appVars, valVars, runVars, dispVars, configRules,
                   configError, called>>

\* onChange of the color select of the form.
ChangeColor ==
    /\ \E k \in DOMAIN HIGHLIGHT_COLORS :
          /\ newRule.color # Name(HIGHLIGHT_COLORS[k])
          /\ newRule' = [newRule EXCEPT !.color = Name(HIGHLIGHT_COLORS[k])]
    /\ UNCHANGED <<hlVars, pdfVars, appVars, valVars, runVars, dispVars, configRules,
                   configError, called>>

\* onChange of the checkbox.
ChangeCaseSensitive ==
    /\ newRule' = [newRule EXCEPT !.caseSensitive = Bool(~newRule.caseSensitive.flag)]
    /\ UNCHANGED <<hlVars, pdfVars, appVars, valVars, runVars, dispVars, configRules,
                   configError, called>>

\* The rule lists the parent may hand to the form: rules the form built, and
\* rules the classifier produced, whose colors are hex literals.
GivenRules ==
    {[text |-> Str(<<"a">>), color |-> Name("red"), caseSensitive |-> Bool(FALSE)],
     [text |-> Str(<<"b">>), color |-> Name("#e74c3c"), caseSensitive |-> Bool(FALSE)]}

InitConfig ==
    /\ \E list \in UNION {[1..n -> GivenRules] : n \in 0..(MaxConfigRules - 1)} :
          configRules = list
    /\ ConfigMounted
    /\ rules = [isArray |-> TRUE, items |-> <<>>]
    /\ validation = [isValid |-> TRUE, errors |-> <<>>]
    /\ vpc = "idle"
    /\ HlIdle
    /\ PdfIdle
    /\ AppIdle

NextConfig ==
    \/ HandleAddRule
    \/ HandleRemoveRule
    \/ HandleColorChange
    \/ ChangeText
    \/ ChangeColor
    \/ ChangeCaseSensitive

SpecConfig == InitConfig /\ [][NextConfig]_vars

\* The list extended by the form's rule passes validation.
ExtendedListValid ==
    \A i \in 1..(Len(configRules) + 1) :
        LET r == IF i <= Len(configRules) THEN configRules[i] ELSE newRule
        IN  /\ Trim(r.text.chars) # <<>>
            /\ r.color.name \in {"red", "green", "yellow"}

\* C25. Adding a rule is all-or-nothing: when the new rule's text is empty
\* after trim, or the list extended by the new rule fails validation,
\* onRulesChange is not called, the rule list stays as it is and an error
\* message is set; otherwise the new rule is appended after all existing
\* rules and the form is reset.
AddRuleAllOrNothing ==
    [][HandleAddRule =>
          IF Trim(newRule.text.chars) = <<>> \/ ~ExtendedListValid
          THEN /\ ~called'
               /\ configRules' = configRules
               /\ configError'.message # ""
               /\ newRule' = newRule
          ELSE /\ called'
               /\ Len(configRules') = Len(configRules) + 1
               /\ SubSeq(configRules', 1, Len(configRules)) = configRules
               /\ configRules'[Len(configRules')] = newRule
               /\ newRule' = EmptyRule
               /\ configError'.message = ""]_vars

\* C25 witness: a rule was appended to a list that held a rule already, and
\* the form was reset.
AddRuleWitness ==
    /\ called
    /\ Len(configRules) = 2
    /\ configRules[1].text # configRules[2].text
    /\ configRules[2].text = Str(<<" ", "a">>)
    /\ configRules[2].color = Name("green")
    /\ newRule = EmptyRule
    /\ configError = NoError

\* C26. Color provenance: every offset of a highlighted segment carries the
\* color of some raw match span that covers it, so no stretch of text is
\* painted with the color of a rule that did not match it.
ColorProvenance ==
    pc = "done" =>
        \A p \in Offsets :
            SegmentAt(result, p).highlighted =>
                \E h \in SeqRange(highlights) :
                    Covers(h, p) /\ h.color = SegmentAt(result, p).color

(***************************************************************************)
(* Overlapping runs of handleFileSelect.  A run is suspended at its two    *)
(* awaits; between them its code runs without interruption.  PDFUpload's   *)
(* handleDrop passes a dropped file on whatever isLoading is, so a second  *)
(* run can start while the upload UI is still rendered.                    *)
(***************************************************************************)
MaxRuns == 2   \* most runs of handleFileSelect in flight or finished

Run(phase, file, text) == [phase |-> phase, file |-> file, text |-> text]

\* await extractTextFromPDF(file), for a file that can be decoded.
ExtractedFrom(file) == Trim(DocTextFrom(file, Len(file)))

\* handleDrop -> handleFile -> onFileSelect(file): handleFileSelect up to its
\* first await.  The upload UI is rendered only while extractedText is empty.
DropFile ==
    /\ Len(runs) < MaxRuns
    /\ extractedText = <<>>
    /\ \E file \in AppDocs : runs' = Append(runs, Run("extracting", file, <<>>))
    /\ isLoading' = TRUE
    /\ error' = <<>>
    /\ stateHighlightRules' = <<>>
    /\ rulesFrom' = <<>>
    /\ UNCHANGED <<hlVars, pdfVars, valVars, cfgVars, dispVars>>
    /\ UNCHANGED <<variant, genAI, apc, isAnalyzing, extractedText, premiumEstimate,
                   modifiedText, anpc, modelIdx, lastError, reply, analysis>>

\* HighlightedTextDisplay after App has rendered with text: it is unmounted
\* while text is empty, and useState(text) takes text only when it mounts.
ModifiedAfter(modified, text) ==
    IF text = <<>> THEN <<>>
    ELSE IF modified # <<>> THEN modified ELSE text

\* A run's extraction resolves: setExtractedText(text); setIsLoading(false);
\* setIsAnalyzing(true); up to await analyzePolicyText(text).
RunExtracted ==
    \E r \in DOMAIN runs :
        /\ runs[r].phase = "extracting"
        /\ LET text == ExtractedFrom(runs[r].file)
           IN  /\ runs' = [runs EXCEPT ![r] = Run("analyzing", @.file, text)]
               /\ extractedText' = text
               /\ modifiedText' = ModifiedAfter(modifiedText, text)
        /\ isLoading' = FALSE
        /\ isAnalyzing' = TRUE
        /\ UNCHANGED <<hlVars, pdfVars, valVars, cfgVars, dispVars, rulesFrom>>
        /\ UNCHANGED <<variant, genAI, apc, stateHighlightRules, premiumEstimate,
                       error, anpc, modelIdx, lastError, reply, analysis>>

\* A run's extraction rejects: the outer catch block.
RunExtractFailed ==
    \E r \in DOMAIN runs :
        /\ runs[r].phase = "extracting"
        /\ runs' = [runs EXCEPT ![r].phase = "done"]
        /\ error' = <<"Error: ", "Failed to extract text from PDF: ", "decoder error">>
        /\ isLoading' = FALSE
        /\ UNCHANGED <<hlVars, pdfVars, valVars, cfgVars, dispVars, rulesFrom>>
        /\ UNCHANGED <<variant, genAI, apc, isAnalyzing, extractedText,
                       stateHighlightRules, premiumEstimate, modifiedText, anpc,
                       modelIdx, lastError, reply, analysis>>

\* What the classifier may find in text: nothing, or the text as one
\* sentence of high risk.
SentencesIn(text) ==
    {<<>>, <<[sentence |-> text, color |-> "#e74c3c", riskLevel |-> "high"]>>}

\* A run's analysis resolves: setHighlightRules(rules), and the finally block.
RunAnalysed ==
    \E r \in DOMAIN runs :
        /\ runs[r].phase = "analyzing"
        /\ AnalysisStart(variant, genAI, runs[r].text).anpc # "rejected"
        /\ \E sentences \in SentencesIn(runs[r].text) :
              stateHighlightRules' = RulesOf(sentences)
        /\ rulesFrom' = runs[r].text
        /\ runs' = [runs EXCEPT ![r].phase = "done"]
        /\ isAnalyzing' = FALSE
        /\ UNCHANGED <<hlVars, pdfVars, valVars, cfgVars, dispVars>>
        /\ UNCHANGED <<variant, genAI, apc, isLoading, extractedText, premiumEstimate,
                       error, modifiedText, anpc, modelIdx, lastError, reply, analysis>>

\* A run's analysis rejects (always so for an empty text): the inner catch
\* block and the finally block.
RunAnalysisFailed ==
    \E r \in DOMAIN runs :
        /\ runs[r].phase = "analyzing"
        /\ error' = AnalysisCatch(<<"Failed to analyze policy text: ">>).error
        /\ runs' = [runs EXCEPT ![r].phase = "done"]
        /\ isAnalyzing' = FALSE
        /\ UNCHANGED <<hlVars, pdfVars, valVars, cfgVars, dispVars, rulesFrom>>
        /\ UNCHANGED <<variant, genAI, apc, isLoading, extractedText,
                       stateHighlightRules, premiumEstimate, modifiedText, anpc,
                       modelIdx, lastError, reply, analysis>>

InitOverlap ==
    /\ variant = "gemini"
    /\ genAI = "client"
    /\ apc = "idle"
    /\ AppMounted
    /\ AnalysisIdle
    /\ HlIdle
    /\ PdfIdle
    /\ ValIdle

NextOverlap ==
    \/ DropFile
    \/ RunExtracted
    \/ RunExtractFailed
    \/ RunAnalysed
    \/ RunAnalysisFailed

SpecOverlap == InitOverlap /\ [][NextOverlap]_vars

\* C27. Text/rules consistency under overlapping uploads: whenever
\* highlightRules is not empty, it was produced by analysing the document
\* that extractedText holds and that HighlightedTextDisplay shows.
RulesMatchText ==
    stateHighlightRules # <<>> =>
        /\ rulesFrom = extractedText
        /\ DisplayText(modifiedText, extractedText) = extractedText

\* C28. Upload-flow phases: in a run of handleFileSelect the analysis starts
\* only once extraction has succeeded, with extractedText set to the
\* extracted text; highlightRules receives rules only once the analysis has
\* succeeded; and the run ends, on the success path and on both error
\* paths, with isLoading and isAnalyzing false.
UploadPhases ==
    /\ [][(anpc = "idle" /\ anpc' # "idle") =>
              /\ ppc = "done"
              /\ extractedText' = extracted
              /\ ~isLoading'
              /\ isAnalyzing']_vars
    /\ [](apc = "analyzing" => (ppc = "done" /\ extractedText = extracted))
    /\ [][stateHighlightRules' # stateHighlightRules =>
              \/ (apc' = "extracting" /\ stateHighlightRules' = <<>>)
              \/ (apc = "analyzing" /\ anpc = "resolved")]_vars
    /\ [](apc = "done" => (~isLoading /\ ~isAnalyzing))

\* C28 witness: a run has ended on the analysis error path after it had set
\* the extracted text.
UploadPhasesWitness ==
    /\ apc = "done"
    /\ ppc = "done"
    /\ anpc = "rejected"
    /\ extractedText = extracted
    /\ Len(extractedText) >= 3
    /\ stateHighlightRules = <<>>
    /\ ~isLoading
    /\ ~isAnalyzing

(***************************************************************************)
(* HighlightedTextDisplay: the dropdown of a highlighted segment and the   *)
(* replacement of its clause.  The component renders after every state     *)
(* change, and a handler sees the segments of the last render.             *)
(***************************************************************************)
MaxDisplayLen == 4   \* longest text the display is made to hold

NoIndex == -1

\* getClauseOptions(originalSentence): the texts of the four alternatives
\* offered for a sentence that names no exclusion, duty or penalty.  Each
\* stands for a fixed English sentence; here they are short, over the
\* alphabet of the documents, one of them equal to a rule's text.
ClauseOptions(originalSentence) == {<<"b">>, <<"b", "b">>, <<"a">>, <<" ", "b">>}

\* let currentPosition = 0; for (i < segmentIndex) currentPosition += segments[i].text.length
RECURSIVE PositionOf(_, _)
PositionOf(segs, segmentIndex) ==
    IF segmentIndex = 0 THEN 0
    ELSE PositionOf(segs, segmentIndex - 1) + Len(segs[segmentIndex].text)

\* Mutant of UpdatedText: afterText starts at currentPosition.
UpdatedTextKeep(text, position, sentence, option) ==
    Substring(text, 0, position) \o option \o Substring(text, position, Len(text))

\* beforeText + selectedOption.text + afterText
UpdatedText(text, position, sentence, option) ==
    Substring(text, 0, position) \o option
        \o Substring(text, position + Len(sentence), Len(text))

\* handleArrowClick(segment, index, event): the dropdown is toggled.  The
\* render that follows computes the same segments again.
HandleArrowClick ==
    /\ pc = "done"
    /\ \E index \in 0..(Len(result) - 1) :
          /\ result[index + 1].highlighted
          /\ activeDropdownIndex' = IF activeDropdownIndex = index THEN NoIndex ELSE index
    /\ UNCHANGED <<hlVars, pdfVars, valVars, appVars, cfgVars, runVars>>

\* handleOptionSelect(segment.text, option, index), from the open dropdown,
\* and the render that follows: createHighlightedSegments(displayText, rules).
HandleOptionSelect ==
    /\ pc = "done"
    /\ activeDropdownIndex # NoIndex
    /\ activeDropdownIndex < Len(result)
    /\ result[activeDropdownIndex + 1].highlighted
    /\ LET originalSentence == result[activeDropdownIndex + 1].text
           displayText == DisplayText(modifiedText, extractedText)
       IN  \E option \in ClauseOptions(originalSentence) :
              LET updatedText == UpdatedText(displayText,
                                             PositionOf(result, activeDropdownIndex),
                                             originalSentence, option)
              IN  /\ Len(updatedText) <= MaxDisplayLen
                  /\ modifiedText' = updatedText
                  /\ originalText' = DisplayText(updatedText, extractedText)
    /\ activeDropdownIndex' = NoIndex
    /\ pc' = "start"
    /\ highlights' = <<>>
    /\ ruleIdx' = 1
    /\ lastIndex' = 0
    /\ merged' = <<>>
    /\ current' = NoSpan
    /\ currentRef' = 0
    /\ mergedRefs' = <<>>
    /\ mi' = 0
    /\ mergedHighlights' = <<>>
    /\ segIdx' = 1
    /\ segments' = <<>>
    /\ currentIndex' = 0
    /\ result' = <<>>
    /\ UNCHANGED <<pdfVars, valVars, cfgVars, runVars, highlightRules>>
    /\ UNCHANGED <<variant, genAI, apc, isLoading, isAnalyzing, extractedText,
                   stateHighlightRules, premiumEstimate, error, anpc, modelIdx,
                   lastError, reply, analysis>>

DisplayChars == {"a", " "}

\* The display is mounted with a text and rules and renders for the first time.
InitDisplay ==
    /\ extractedText \in Strings(DisplayChars, MaxDocLen) \ {<<>>}
    /\ stateHighlightRules \in
          UNION {RuleLists({<<"a">>, <<"a", " ">>}, n) : n \in 0..MaxRules}
    /\ modifiedText = extractedText
    /\ activeDropdownIndex = NoIndex
    /\ originalText = extractedText
    /\ highlightRules = stateHighlightRules
    /\ pc = "start"
    /\ highlights = <<>>
    /\ HlLocalsInit
    /\ variant = "gemini"
    /\ genAI = "client"
    /\ apc = "done"
    /\ isLoading = FALSE
    /\ isAnalyzing = FALSE
    /\ premiumEstimate = NULL
    /\ error = <<>>
    /\ runs = <<>>
    /\ rulesFrom = <<>>
    /\ AnalysisIdle
    /\ PdfIdle
    /\ ValIdle

NextDisplay ==
    \/ HandleArrowClick
    \/ HandleOptionSelect
    \/ EarlyReturn
    \/ BeginMatching
    \/ ExecMatch
    \/ ExecNull
    \/ SortHighlights
    \/ MergeEnter
    \/ MergeStep
    \/ MergeReturn
    \/ SegmentStep
    \/ SegmentReturn

SpecDisplay == InitDisplay /\ [][NextDisplay]_vars

\* C29. Clause replacement is local: selecting an alternative for the
\* highlighted segment at index i makes the displayed text the texts of
\* segments 0..i-1, then the option's text, then the texts of segments
\* i+1.., of the text displayed before the click, and closes the dropdown.
ClauseReplacement ==
    [][HandleOptionSelect =>
          LET i == activeDropdownIndex
          IN  /\ ConcatTexts(result) = DisplayText(modifiedText, extractedText)
              /\ \E option \in ClauseOptions(result[i + 1].text) :
                    DisplayText(modifiedText', extractedText') =
                        ConcatTexts(SubSeq(result, 1, i)) \o option
                            \o ConcatTexts(SubSeq(result, i + 2, Len(result)))
              /\ activeDropdownIndex' = NoIndex]_vars

\* C29 witness: the clause of a segment that had text before and after it
\* was replaced by a longer one, and the new text has been rendered.
ClauseReplacementWitness ==
    /\ pc = "done"
    /\ extractedText = <<" ", "a", " ">>
    /\ modifiedText = <<" ", "b", "b", " ">>
    /\ activeDropdownIndex = NoIndex
    /\ ConcatTexts(result) = modifiedText

\* The models of the list, by position.
LastModel == Len(modelNamesToTry)

\* analyzePolicyText has thrown 'No working Gemini model found'.
NoWorkingModel ==
    /\ anpc = "rejected"
    /\ analysis.message[1] = "No working Gemini model found. Tried: "

\* C30. Model fallback: the models are tried in list order, the next one
\* only after the one before it failed; the loop stops at the first model
\* whose call succeeds and no model is called after that; the failure 'No
\* working Gemini model found' carries the last model's error and occurs
\* only when every model of the list has failed.
ModelFallback ==
    /\ [][(anpc = "models" /\ modelIdx' # modelIdx) =>
              /\ modelIdx' = modelIdx + 1
              /\ modelIdx' <= LastModel
              /\ lastError' = <<modelIdx>>
              /\ anpc' = "models"]_vars
    /\ [][(anpc = "models" /\ anpc' = "response") =>
              /\ modelIdx' = modelIdx
              /\ lastError' = lastError
              /\ lastError \in {<<>>, <<modelIdx - 1>>}]_vars
    /\ [][(anpc \in {"response", "resolved", "rejected"} /\ anpc' # "idle") =>
              /\ modelIdx' = modelIdx
              /\ lastError' = lastError
              /\ anpc' # "models"]_vars
    /\ [](anpc = "models" => lastError = IF modelIdx = 1 THEN <<>> ELSE <<modelIdx - 1>>)
    /\ [](NoWorkingModel =>
              /\ modelIdx = LastModel
              /\ lastError = <<LastModel>>
              /\ analysis.message[3] = modelNamesToTry[LastModel])

\* C30 witness: the third model answered after the first two had failed,
\* and the analysis went on to resolve.
ModelFallbackWitness ==
    /\ anpc = "resolved"
    /\ modelIdx = 3
    /\ lastError = <<2>>
    /\ apc = "analyzing"

==============================================================================
